---------------------------- MODULE Spec2Model ----------------------------
(***************************************************************************)
(* Countdown-and-reveal sequencer of the save-the-date page                *)
(* (src/assets/js/main.js, the current implementation: lines 1950-4604).   *)
(*                                                                         *)
(* The page is single threaded.  Every action below is one browser task:   *)
(* a DOM event handler, a timer callback or a media event, run to          *)
(* completion together with the promise reactions (microtasks) it queues.  *)
(* The program state is kept in one variable per module-level `let` of the *)
(* source; the handlers are operators from a state record to a state       *)
(* record so that a handler can call another one, as the source does.      *)
(*                                                                         *)
(* Browser behaviour the model relies on (HTML media element):             *)
(*  - play() that the autoplay policy refuses returns a promise rejected   *)
(*    with NotAllowedError and leaves `paused` unchanged;                  *)
(*  - play() that is allowed clears `paused`, queues a `play` event and    *)
(*    leaves the promise pending until playback really starts;             *)
(*  - pause() rejects the pending play promises with AbortError;           *)
(*  - reaching the end sets `paused`, fires `pause` and then `ended`;      *)
(*  - a media element removed from the document is paused;                 *)
(*  - a media element that failed stays failed until it is reloaded: it    *)
(*    never plays again, and play() on it is rejected or stays pending;    *)
(*  - events dispatched by the browser have isTrusted = true.              *)
(* The countdown of the earlier page script (src/unnamed/part_004), whose  *)
(* start listeners are never removed, is kept in the variable part004.     *)
(* The demo page, the playback position sync, the calendar export, the     *)
(* attendance form, the image grids of the earlier page scripts, the       *)
(* promise-gated switch to the video, the story page of                    *)
(* src/unnamed/part_008 and the per-frame durations are machines of their  *)
(* own, each in one variable: demo, mediaSync, calendar, attendance, grid, *)
(* gate, story and hit.                                                    *)
(* Not modelled: CSS classes, aria attributes other than the permission    *)
(* UI's, the oscillator sounds, the calendar menu and its keyboard         *)
(* handling, and the animation frames that add the `active` class to a     *)
(* revealed image frame.                                                   *)
(***************************************************************************)
EXTENDS Integers, Sequences, FiniteSets, TLC

\* ------------------------------------------------------------------ bounds
MaxCells == 2          \* border cells (.border-cell elements) on the page
MaxEntries == 2        \* celebration video views built in one run
MaxTimeSteps == 9      \* playback positions run from 0 to MaxTimeSteps steps
MaxLen == 3            \* characters of a generated calendar description
MaxPosts == 3          \* submissions of the attendance form in one run
MaxFrames == 16        \* image frames of a grid of src/unnamed/part_004
MaxDownloads == 3      \* clicks on the calendar file links in one run
MaxDetailsViews == 2   \* details views built before the last sneak peek

\* ------------------------------------------------------- program constants
COUNTDOWN_START_FALLBACK == 10
mobilePhotoLoopCount == 1
CELEBRATION_TRANSITION_DELAY_MS == 520
MOBILE_PHOTO_DEFAULT_DURATION_MS == 1600
MOBILE_PHOTO_TRANSITION_BUFFER_MS == 80
MOBILE_PHOTO_CYCLE_DURATIONS ==
  <<[start |-> 2000, step |-> 140, min |-> 1200],
    [start |-> 1100, step |-> 160, min |-> 420]>>
MOBILE_FINAL_PHOTO_ANIMATION_DURATION_MS == 4560
MOBILE_FINAL_PHOTO_ADDITIONAL_DELAY_MS == 360

Max(a, b) == IF a >= b THEN a ELSE b
countdownStartValue == 10       \* the earlier page script, src/unnamed/part_004
demoStartValue == 10            \* `let n = 10` of src/assets/js/countdown-demo.js
secondCountdownStartValue == 10 \* `let n = 10` of the second script of part_004
totalCountdownSteps == countdownStartValue + 1
hitStartValue == 10             \* `let n = 10` of src/unnamed/part_007
part003StartValue == 10         \* `let n = 10` of src/unnamed/part_003
countdownImageSourcesLength == 16   \* the image list of src/unnamed/part_007
COUNTDOWN_COMPLETE_VIDEO_DELAY_MS == 400
celebrationSyncToleranceMs == 350   \* 0.35 s in ensureAudioSync
sneakPeekSyncToleranceMs == 300     \* 0.3 s in syncTime
TimeStepMs == 50                    \* playback positions are multiples of 50 ms

VARIABLES
  \* page configuration, fixed when the script runs
  numCells,                 \* borderCells.length
  photoSrc,                 \* indices (0-based) of border cells whose img has a src
  prefersReducedMotion,
  hasMobileStage,           \* document.getElementById('mobileStage') found
  hasCountdownNumber,       \* countdownNumber && initialCountdownWrapper found
  \* countdown state
  phase,                    \* "load" until the wiring at the end of the script ran
  hasStarted, currentValue, revealedCells, countdownIntervalId,
  visibleCells,             \* indices of the border cells with class is-visible
  isMobileExperienceActive, startListeners,
  startOverlay,             \* the start overlay is in the document
  startButton,              \* the start button exists and is enabled
  overlayTimer,             \* the START_OVERLAY_CLEAR_DELAY_MS timer is pending
  \* views
  cardShell, mobileStage, swapQueue, photoTimer, finalPhotoTimer, flow,
  photoDelay,               \* delay in ms of the photo timer armed last
  \* pending one-shot timers
  completionTimer, endedTimers, hideTimers, fxTimer,
  \* shared celebration video element
  nextEntry, entryFx, sharedCelebrationVideoElement, vParent,
  vPaused, vEnded, vReady, vPlaying, vMuted, vEvents, vPending, vError,
  endedListeners, errorListeners,
  sharedCelebrationVideoEndedHandler, sharedCelebrationVideoErrorHandler,
  syncListeners, cleanupCelebrationMediaSync, canplayListeners, playingListeners,
  hasPrimedMobileVideoPlayback,
  \* shared celebration audio element and the permission UI
  aPaused, aMuted, aEnsurePending, aPrimerPending,
  hasPrimedCelebrationAudioPlayback, isCelebrationAudioPlaybackBlocked,
  hasUserAdjustedVolume,    \* of the media sync set up last
  activeCelebrationVideoElement, currentCelebrationVideoWrapper,
  celebrationAudioPermissionContainer, permHidden, permAriaHidden,
  \* promise reactions queued by the running task (empty between tasks)
  mq,
  \* history of the run, read by the properties only
  tickRenders, armCount, completionCalls, retryInFlight,
  videoElementsCreated,     \* calls of createCelebrationVideoElement
  realStarted, \* the media elements ("video", "audio") whose celebration
                          \* playback has been started by an allowed play()
  primerLate, \* the media elements a primer was finalized on after
                          \* their celebration playback had been started
  detailsFor, \* the video entries whose callbacks have invoked the
                          \* details transition
  detailsAgain, \* the video entries whose callbacks have invoked it
                          \* more than once
  photoLog, \* the indices of the photos the mobile sequence has
                          \* shown, in the order of their frames
  detailsCause, \* the callback that is invoking a details view
  fxCauses, \* the callbacks whose details view scheduled boom and confetti
  outsideClickListeners, \* click listeners of createCalendarInviteControls on document
  lastEvent,                \* the last task, when it is an Observed one
  lastEndedCallbacks,       \* onEnded callbacks the last task invoked
  lastRejections,           \* video play rejections the last task handled
  lastAudio,                \* "denied" / "played": the last task ran the catch
                            \* (not-allowed) / the success path of
                            \* ensureCelebrationAudioPlayback
  lastAudioRejections,      \* the callers whose audio.play() promise was
                            \* rejected in the last task: "aEnsure",
                            \* "aPrimer", "none" (handleVideoPlay)
  \* the earlier page script (src/unnamed/part_004, first listener): its
  \* countdown state, used when phase = "part_004"
  part004,
  \* the demo page script (src/assets/js/countdown-demo.js): its countdown
  \* and image stack, used when phase = "countdown_demo"
  demo,
  \* the playback positions of a video and the audio element synchronised to
  \* it, with the last media event dispatched to the sync listeners
  mediaSync,
  \* the calendar export: the event, the text of the last ICS file generated and
  \* whether its object URL is cached
  calendar,
  \* the attendance form (src/assets/js/cant-attend.js and src/unnamed/part_000):
  \* what its container shows, the POST requests in flight and the timers
  attendance,
  \* the grids of image frames of src/unnamed/part_004 and part_007
  grid,
  \* the promise-gated pages: countdown-demo.js, part_003, part_004
  gate,
  \* the page of src/unnamed/part_008 (second script): the mobile photo
  \* story with its video stage, or the desktop countdown with its intro card
  story,
  \* the --hit-duration of the image frames and the display duration of the
  \* mobile photos, computed frame by frame
  hit

config == <<numCells, photoSrc, prefersReducedMotion, hasMobileStage, hasCountdownNumber>>

\* The set S in ascending order, as a sequence.
RECURSIVE SetToSeq(_)
SetToSeq(S) ==
  IF S = {} THEN <<>>
  ELSE LET m == CHOOSE x \in S : \A y \in S : x <= y
       IN <<m>> \o SetToSeq(S \ {m})

\* A view wrapper: what it shows and, for a celebration video view, the
\* number of the showCelebrationVideo / showMobileVideo call that built it.
Frame(v, id) == [v |-> v, id |-> id]

\* countdownStart (main.js:3303)
countdownStart == IF numCells > 0 THEN numCells ELSE COUNTDOWN_START_FALLBACK


\* ------------------------------------------------------------ state record
\* The mutable program state as a record, so that handlers compose.  The
\* ghosts that describe the last task start from zero in every task.
Cur ==
  [hasStarted |-> hasStarted, currentValue |-> currentValue,
   revealedCells |-> revealedCells, countdownIntervalId |-> countdownIntervalId,
   visibleCells |-> visibleCells,
   isMobileExperienceActive |-> isMobileExperienceActive,
   startListeners |-> startListeners, startOverlay |-> startOverlay,
   startButton |-> startButton, overlayTimer |-> overlayTimer,
   cardShell |-> cardShell, mobileStage |-> mobileStage, swapQueue |-> swapQueue,
   photoTimer |-> photoTimer, finalPhotoTimer |-> finalPhotoTimer, flow |-> flow,
   photoDelay |-> photoDelay,
   completionTimer |-> completionTimer, endedTimers |-> endedTimers,
   hideTimers |-> hideTimers, fxTimer |-> fxTimer,
   nextEntry |-> nextEntry, entryFx |-> entryFx,
   sharedCelebrationVideoElement |-> sharedCelebrationVideoElement,
   vParent |-> vParent, vPaused |-> vPaused, vEnded |-> vEnded, vReady |-> vReady,
   vPlaying |-> vPlaying, vMuted |-> vMuted, vEvents |-> vEvents,
   vPending |-> vPending, vError |-> vError,
   endedListeners |-> endedListeners, errorListeners |-> errorListeners,
   sharedCelebrationVideoEndedHandler |-> sharedCelebrationVideoEndedHandler,
   sharedCelebrationVideoErrorHandler |-> sharedCelebrationVideoErrorHandler,
   syncListeners |-> syncListeners,
   cleanupCelebrationMediaSync |-> cleanupCelebrationMediaSync,
   canplayListeners |-> canplayListeners, playingListeners |-> playingListeners,
   hasPrimedMobileVideoPlayback |-> hasPrimedMobileVideoPlayback,
   aPaused |-> aPaused, aMuted |-> aMuted, aEnsurePending |-> aEnsurePending,
   aPrimerPending |-> aPrimerPending,
   hasPrimedCelebrationAudioPlayback |-> hasPrimedCelebrationAudioPlayback,
   isCelebrationAudioPlaybackBlocked |-> isCelebrationAudioPlaybackBlocked,
   activeCelebrationVideoElement |-> activeCelebrationVideoElement,
   currentCelebrationVideoWrapper |-> currentCelebrationVideoWrapper,
   celebrationAudioPermissionContainer |-> celebrationAudioPermissionContainer,
   permHidden |-> permHidden, permAriaHidden |-> permAriaHidden,
   mq |-> mq,
   tickRenders |-> tickRenders, armCount |-> armCount,
   completionCalls |-> completionCalls, retryInFlight |-> retryInFlight,
   videoElementsCreated |-> videoElementsCreated,
   realStarted |-> realStarted,
   primerLate |-> primerLate,
   detailsFor |-> detailsFor,
   detailsAgain |-> detailsAgain,
   hasUserAdjustedVolume |-> hasUserAdjustedVolume,
   photoLog |-> photoLog,
   detailsCause |-> detailsCause,
   fxCauses |-> fxCauses,
   outsideClickListeners |-> outsideClickListeners,
   lastEndedCallbacks |-> 0, lastRejections |-> 0, lastAudio |-> "none",
   lastAudioRejections |-> {}]

\* The tasks the properties tell apart by name.
Observed == {"videoError", "audioRetryPlaying", "startIgnored", "breakpoint"}

\* The next state is the record s; ev names the task that ran.
Commit(s, ev) ==
  /\ hasStarted' = s.hasStarted
  /\ currentValue' = s.currentValue
  /\ revealedCells' = s.revealedCells
  /\ visibleCells' = s.visibleCells
  /\ countdownIntervalId' = s.countdownIntervalId
  /\ isMobileExperienceActive' = s.isMobileExperienceActive
  /\ startListeners' = s.startListeners
  /\ startOverlay' = s.startOverlay
  /\ startButton' = s.startButton
  /\ overlayTimer' = s.overlayTimer
  /\ cardShell' = s.cardShell
  /\ mobileStage' = s.mobileStage
  /\ swapQueue' = s.swapQueue
  /\ photoTimer' = s.photoTimer
  /\ finalPhotoTimer' = s.finalPhotoTimer
  /\ photoDelay' = s.photoDelay
  /\ flow' = s.flow
  /\ completionTimer' = s.completionTimer
  /\ endedTimers' = s.endedTimers
  /\ hideTimers' = s.hideTimers
  /\ fxTimer' = s.fxTimer
  /\ nextEntry' = s.nextEntry
  /\ entryFx' = s.entryFx
  /\ sharedCelebrationVideoElement' = s.sharedCelebrationVideoElement
  /\ vParent' = s.vParent
  /\ vPaused' = s.vPaused
  /\ vEnded' = s.vEnded
  /\ vReady' = s.vReady
  /\ vPlaying' = s.vPlaying
  /\ vMuted' = s.vMuted
  /\ vEvents' = s.vEvents
  /\ vPending' = s.vPending
  /\ vError' = s.vError
  /\ endedListeners' = s.endedListeners
  /\ errorListeners' = s.errorListeners
  /\ sharedCelebrationVideoEndedHandler' = s.sharedCelebrationVideoEndedHandler
  /\ sharedCelebrationVideoErrorHandler' = s.sharedCelebrationVideoErrorHandler
  /\ syncListeners' = s.syncListeners
  /\ cleanupCelebrationMediaSync' = s.cleanupCelebrationMediaSync
  /\ canplayListeners' = s.canplayListeners
  /\ playingListeners' = s.playingListeners
  /\ hasPrimedMobileVideoPlayback' = s.hasPrimedMobileVideoPlayback
  /\ aPaused' = s.aPaused
  /\ aMuted' = s.aMuted
  /\ aEnsurePending' = s.aEnsurePending
  /\ aPrimerPending' = s.aPrimerPending
  /\ hasPrimedCelebrationAudioPlayback' = s.hasPrimedCelebrationAudioPlayback
  /\ isCelebrationAudioPlaybackBlocked' = s.isCelebrationAudioPlaybackBlocked
  /\ activeCelebrationVideoElement' = s.activeCelebrationVideoElement
  /\ currentCelebrationVideoWrapper' = s.currentCelebrationVideoWrapper
  /\ celebrationAudioPermissionContainer' = s.celebrationAudioPermissionContainer
  /\ permHidden' = s.permHidden
  /\ permAriaHidden' = s.permAriaHidden
  /\ mq' = s.mq
  /\ tickRenders' = s.tickRenders
  /\ armCount' = s.armCount
  /\ completionCalls' = s.completionCalls
  /\ videoElementsCreated' = s.videoElementsCreated
  /\ lastEndedCallbacks' = s.lastEndedCallbacks
  /\ lastRejections' = s.lastRejections
  /\ lastAudio' = s.lastAudio
  /\ lastAudioRejections' = s.lastAudioRejections
  /\ retryInFlight' = s.retryInFlight
  /\ realStarted' = s.realStarted
  /\ primerLate' = s.primerLate
  /\ detailsFor' = s.detailsFor
  /\ detailsAgain' = s.detailsAgain
  /\ hasUserAdjustedVolume' = s.hasUserAdjustedVolume
  /\ photoLog' = s.photoLog
  /\ detailsCause' = s.detailsCause
  /\ fxCauses' = s.fxCauses
  /\ outsideClickListeners' = s.outsideClickListeners
  /\ lastEvent' = IF ev \in Observed THEN ev ELSE "task"
  /\ UNCHANGED <<config, part004, demo, mediaSync, calendar, attendance, grid, gate, story, hit>>

\* A promise reaction waiting for the microtask checkpoint.
Job(k, id, why) == [k |-> k, id |-> id, why |-> why]

\* -------------------------------------------------- media element behaviour
\* HTMLMediaElement.pause() on the celebration audio: pending play promises
\* are rejected with AbortError, the oldest (the primer's) first.
\* aEnsurePending stands for all pending promises of
\* ensureCelebrationAudioPlayback: they settle together and their reactions
\* are idempotent.
audioPause(s) ==
  [s EXCEPT !.aPaused = TRUE,
            !.aEnsurePending = FALSE,
            !.aPrimerPending = FALSE,
            !.mq = @ \o (IF s.aPrimerPending
                         THEN <<Job("aPrimer", 0, "Abort")>> ELSE <<>>)
                     \o (IF s.aEnsurePending
                         THEN <<Job("aEnsure", 0, "Abort")>> ELSE <<>>)]

\* HTMLMediaElement.play() on the celebration audio.  kind names the
\* reactions attached to the returned promise: "aEnsure"
\* (ensureCelebrationAudioPlayback), "aPrimer" (primeCelebrationAudioPlayback)
\* or "none" (handleVideoPlay swallows the rejection).  allow is the autoplay
\* policy's answer.
audioPlay(s, kind, allow) ==
  IF ~allow
  THEN IF kind = "none" THEN [s EXCEPT !.lastAudioRejections = @ \cup {"none"}]
       ELSE [s EXCEPT !.mq = Append(@, Job(kind, 0, "NotAllowed"))]
  ELSE [s EXCEPT !.aPaused = FALSE,
                 !.aEnsurePending = IF kind = "aEnsure" THEN TRUE ELSE @,
                 !.aPrimerPending = IF kind = "aPrimer" THEN TRUE ELSE @,
                 !.realStarted = IF kind = "aPrimer" THEN @ ELSE @ \cup {"audio"}]

\* HTMLMediaElement.pause() on the celebration video.
videoPause(s) ==
  [s EXCEPT !.vPaused = TRUE,
            !.vPlaying = FALSE,
            !.vPending = {},
            !.vEvents = IF s.vPaused THEN @ \ {"play"} ELSE (@ \ {"play"}) \cup {"pause"},
            !.mq = @ \o [i \in 1..Cardinality(s.vPending) |->
                           Job("v", SetToSeq(s.vPending)[i], "Abort")]]

\* HTMLMediaElement.play() on the celebration video; id names the caller whose
\* reactions hang on the promise: an entry number (safelyPlayVideo), 0 (the
\* mobile primer) or -1 (the native controls: no reaction).
videoPlay(s, id, allow) ==
  IF ~allow
  THEN IF id < 0 THEN s ELSE [s EXCEPT !.mq = Append(@, Job("v", id, "NotAllowed"))]
  ELSE [s EXCEPT !.vPaused = FALSE,
                 !.vEnded = FALSE,
                 !.vPending = IF id < 0 THEN @ ELSE @ \cup {id},
                 !.realStarted = IF id = 0 THEN @ ELSE @ \cup {"video"},
                 !.vEvents = IF s.vPaused THEN (@ \ {"pause"}) \cup {"play"} ELSE @]

\* --------------------------------------------------------- permission UI
\* ensureCelebrationAudioPermissionUi (main.js:2178): the container is kept
\* when its parent is this wrapper, and rebuilt hidden otherwise.
ensureCelebrationAudioPermissionUi(s, wrapper) ==
  IF wrapper = 0 \/ s.celebrationAudioPermissionContainer = wrapper THEN s
  ELSE [s EXCEPT !.celebrationAudioPermissionContainer = wrapper,
                 !.permHidden = TRUE,
                 !.permAriaHidden = TRUE]
\* A show that leaves the permission UI as it is.
showCelebrationAudioPermissionUi_staysHidden(s) == s

\* showCelebrationAudioPermissionUi (main.js:2232)
showCelebrationAudioPermissionUi(s) ==
  IF s.currentCelebrationVideoWrapper = 0 THEN s
  ELSE [ensureCelebrationAudioPermissionUi(s, s.currentCelebrationVideoWrapper)
          EXCEPT !.permHidden = FALSE, !.permAriaHidden = FALSE]

\* hideCelebrationAudioPermissionUi (main.js:2250): aria-hidden at once, the
\* hidden attribute from a 200 ms timer.  hideTimers stands for all pending
\* timers of this kind: their callback is idempotent.
hideCelebrationAudioPermissionUi(s) ==
  IF s.celebrationAudioPermissionContainer = 0 THEN s
  ELSE [s EXCEPT !.permAriaHidden = TRUE, !.hideTimers = TRUE]

\* The callback of the 200 ms timer of hideCelebrationAudioPermissionUi.
hideTimerCallback(s) ==
  IF s.celebrationAudioPermissionContainer = 0 THEN s
  ELSE [s EXCEPT !.permHidden = TRUE]

\* ------------------------------------------------------------------ audio
\* stopCelebrationAudio (main.js:2305); the audio element exists from
\* startExperience on.
stopCelebrationAudio(s) ==
  hideCelebrationAudioPermissionUi(
    [audioPause(s) EXCEPT !.isCelebrationAudioPlaybackBlocked = FALSE])

\* resetCelebrationMediaSync (main.js:2424)
resetCelebrationMediaSync(s) ==
  LET s1 == IF s.cleanupCelebrationMediaSync # 0
            THEN audioPause([s EXCEPT
                   !.syncListeners = @ \ {s.cleanupCelebrationMediaSync},
                   !.cleanupCelebrationMediaSync = 0])
            ELSE s
  IN hideCelebrationAudioPermissionUi(
       [s1 EXCEPT !.activeCelebrationVideoElement = FALSE,
                  !.currentCelebrationVideoWrapper = 0])
\* A success reaction that hides the permission UI and keeps the blocked
\* flag.
ensureThen_keepsBlocked(s) ==
  hideCelebrationAudioPermissionUi([s EXCEPT !.lastAudio = "played"])

\* The .then reaction of ensureCelebrationAudioPlayback's play promise
\* (main.js:2749).
ensureThen(s) ==
  hideCelebrationAudioPermissionUi(
    [s EXCEPT !.isCelebrationAudioPlaybackBlocked = FALSE,
              !.lastAudio = "played"])
\* A rejection reaction that shows the permission UI and leaves the blocked
\* flag as it is.
ensureCatch_keepsFlag(s, why) ==
  LET s1 == [s EXCEPT !.retryInFlight = FALSE]
  IN IF why = "NotAllowed"
     THEN showCelebrationAudioPermissionUi([s1 EXCEPT !.lastAudio = "denied"])
     ELSE s1

\* The .catch reaction of ensureCelebrationAudioPlayback's play promise
\* (main.js:2753); why is the rejection's error name.
ensureCatch(s, why) ==
  LET s1 == [s EXCEPT !.isCelebrationAudioPlaybackBlocked = TRUE,
                      !.retryInFlight = FALSE]
  IN IF why = "NotAllowed"
     THEN showCelebrationAudioPermissionUi([s1 EXCEPT !.lastAudio = "denied"])
     ELSE s1

\* ensureCelebrationAudioPlayback (main.js:2711); p.a is the autoplay
\* policy's answer to audio.play().
ensureCelebrationAudioPlayback(s, allowRetry, forceRetry, p) ==
  IF s.isCelebrationAudioPlaybackBlocked /\ ~allowRetry /\ ~forceRetry THEN s
  ELSE LET s1 == IF s.activeCelebrationVideoElement
                 THEN [s EXCEPT !.aMuted = ~s.vMuted] ELSE s
       IN IF ~s1.aPaused
          THEN ensureThen(s1)
          ELSE [audioPlay(s1, "aEnsure", p.a) EXCEPT
                  !.retryInFlight =
                     @ \/ (forceRetry /\ p.a /\ s.isCelebrationAudioPlaybackBlocked)]

\* ensureAudioPlaybackWhenVideoActive (main.js:2448); kind is the closure
\* passed as ensureAudioPlayback: "plain" calls with the defaults, "retry"
\* with allowRetry.
ensureAudioPlaybackWhenVideoActive(s, kind, p) ==
  IF ~s.vPaused /\ ~s.vEnded
  THEN ensureCelebrationAudioPlayback(s, kind = "retry", FALSE, p)
  ELSE [s EXCEPT !.playingListeners = @ \cup {kind}]

\* finalizePrimer of primeCelebrationAudioPlayback (main.js:2794); the muted
\* state it restores is the fresh element's (false).
finalizeAudioPrimer(s, wasSuccessful) ==
  [audioPause(s) EXCEPT
     !.aMuted = FALSE,
     !.primerLate = @ \cup (s.realStarted \cap {"audio"}),
     !.hasPrimedCelebrationAudioPlayback = @ \/ wasSuccessful]

\* primeCelebrationAudioPlayback (main.js:2782)
primeCelebrationAudioPlayback(s, p) ==
  IF s.hasPrimedCelebrationAudioPlayback THEN s
  ELSE audioPlay([s EXCEPT !.aMuted = TRUE], "aPrimer", p.a)

\* applyVolumeState of setupCelebrationMediaSync (main.js:2509)
applyVolumeState(s) == [s EXCEPT !.aMuted = s.vMuted]

\* ensureAudioAudibleWhenVideoMuted of setupCelebrationMediaSync
\* (main.js:2523)
ensureAudioAudibleWhenVideoMuted(s) ==
  IF ~s.vMuted \/ s.hasUserAdjustedVolume THEN s
  ELSE [s EXCEPT !.aMuted = FALSE]

\* handleVideoVolumeChange of setupCelebrationMediaSync (main.js:2533)
handleVideoVolumeChange(s, isTrusted) ==
  LET s1 == applyVolumeState(
              [s EXCEPT !.hasUserAdjustedVolume = @ \/ isTrusted])
  IN IF ~s1.hasUserAdjustedVolume THEN ensureAudioAudibleWhenVideoMuted(s1)
     ELSE s1

\* handleVideoPlay of setupCelebrationMediaSync (main.js:2545).  The event is
\* dispatched by the browser, so event.isTrusted and with it allowRetry are
\* true.
handleVideoPlay(s, p) ==
  LET s1 == ensureAudioAudibleWhenVideoMuted(applyVolumeState(s))
      s2 == audioPlay(s1, "none", p.a)
      s3 == ensureCelebrationAudioPlayback(s2, TRUE, FALSE, p)
  IN ensureAudioPlaybackWhenVideoActive(s3, "retry", p)
\* A reset that forgets the stored handlers and leaves them registered.
resetCelebrationVideoHandlers_keepsListeners(s) ==
  [s EXCEPT !.sharedCelebrationVideoEndedHandler = 0,
            !.sharedCelebrationVideoErrorHandler = 0]

\* ------------------------------------------------------------------ video
\* resetCelebrationVideoHandlers (main.js:2386)
resetCelebrationVideoHandlers(s) ==
  [s EXCEPT
     !.endedListeners = @ \ {s.sharedCelebrationVideoEndedHandler},
     !.sharedCelebrationVideoEndedHandler = 0,
     !.errorListeners = @ \ {s.sharedCelebrationVideoErrorHandler},
     !.sharedCelebrationVideoErrorHandler = 0]
\* An attach that adds the new handlers without the reset.
attachCelebrationVideoHandlers_noReset(s, e) ==
  [s EXCEPT !.sharedCelebrationVideoEndedHandler = e,
            !.endedListeners = @ \cup {e},
            !.sharedCelebrationVideoErrorHandler = e,
            !.errorListeners = @ \cup {e}]

\* attachCelebrationVideoHandlers (main.js:2405); the handlers are the
\* closures of entry e.
attachCelebrationVideoHandlers(s, e) ==
  LET s1 == resetCelebrationVideoHandlers(s)
  IN [s1 EXCEPT !.sharedCelebrationVideoEndedHandler = e,
                !.endedListeners = @ \cup {e},
                !.sharedCelebrationVideoErrorHandler = e,
                !.errorListeners = @ \cup {e}]

\* setupCelebrationMediaSync (main.js:2474) for the wrapper of entry e.
setupCelebrationMediaSync(s, e) ==
  LET s1 == resetCelebrationMediaSync(s)
      s2 == hideCelebrationAudioPermissionUi(
              [s1 EXCEPT !.activeCelebrationVideoElement = TRUE,
                         !.isCelebrationAudioPlaybackBlocked = FALSE])
      s3 == ensureCelebrationAudioPermissionUi(
              [s2 EXCEPT !.currentCelebrationVideoWrapper = e], e)
      s4 == audioPause([s3 EXCEPT !.hasUserAdjustedVolume = FALSE])
      s5 == ensureAudioAudibleWhenVideoMuted(applyVolumeState(s4))
  IN [s5 EXCEPT !.syncListeners = @ \cup {e},
                !.cleanupCelebrationMediaSync = e]

\* attemptVideoPlayback of safelyPlayVideo (main.js:2855)
attemptVideoPlayback(s, e, p) == videoPlay(s, e, p.v)

\* safelyPlayVideo (main.js:2848)
safelyPlayVideo(s, e, p) ==
  IF s.vReady THEN attemptVideoPlayback(s, e, p)
  ELSE [s EXCEPT !.canplayListeners = @ \cup {e}]

\* A getter that creates a video element on every call.
getCelebrationVideoElement_alwaysCreates(s) ==
  [s EXCEPT !.sharedCelebrationVideoElement = TRUE,
            !.videoElementsCreated = @ + 1]

\* getCelebrationVideoElement (main.js:2284) with
\* createCelebrationVideoElement (main.js:2119)
getCelebrationVideoElement(s) ==
  IF s.sharedCelebrationVideoElement THEN s
  ELSE [s EXCEPT !.sharedCelebrationVideoElement = TRUE,
                 !.videoElementsCreated = @ + 1]

\* buildCelebrationVideo (main.js:4062) for entry e: the shared element is
\* paused, rewound (p.rdy: the seek leaves readyState >= 2) and moved into
\* the new wrapper.
buildCelebrationVideo(s, e, p) ==
  LET s1 == videoPause(getCelebrationVideoElement(s))
      s2 == [s1 EXCEPT !.vEnded = FALSE,
                       !.vReady = @ /\ p.rdy,
                       !.vMuted = TRUE,
                       !.vParent = e,
                       !.currentCelebrationVideoWrapper = e]
  IN hideCelebrationAudioPermissionUi(ensureCelebrationAudioPermissionUi(s2, e))

\* finalizePrimer of primeMobileCelebrationVideoPlayback (main.js:2918)
finalizeVideoPrimer(s, wasSuccessful) ==
  [videoPause(s) EXCEPT
     !.vMuted = TRUE,
     !.primerLate = @ \cup (s.realStarted \cap {"video"}),
     !.hasPrimedMobileVideoPlayback = @ \/ wasSuccessful]

\* primeMobileCelebrationVideoPlayback (main.js:2887)
primeMobileCelebrationVideoPlayback(s, p) ==
  IF s.hasPrimedMobileVideoPlayback THEN s
  ELSE LET s1 == getCelebrationVideoElement(s)
       IN IF ~s1.vPaused /\ ~s1.vEnded THEN s1
          ELSE videoPlay([s1 EXCEPT !.vMuted = TRUE], 0, p.v)

\* ------------------------------------------------------------------ views
\* The browser pauses the shared video when the wrapper holding it leaves the
\* document: old is the content a container had, s the state after the swap.
pauseRemovedVideo(s, old) ==
  IF /\ old # <<>>
     /\ \E i \in 1..Len(old) : old[i].v = "video" /\ old[i].id = s.vParent
     /\ ~\E i \in 1..Len(s.cardShell) : s.cardShell[i] = Frame("video", s.vParent)
     /\ ~\E i \in 1..Len(s.mobileStage) : s.mobileStage[i] = Frame("video", s.vParent)
  THEN videoPause(s)
  ELSE s

\* targetContainer.innerHTML = ''; targetContainer.appendChild(wrapper)
\* (main.js:4039, 4161, 4228) on #cardShell.
replaceCardShell(s, frame) ==
  pauseRemovedVideo([s EXCEPT !.cardShell = <<frame>>], s.cardShell)

\* The value of detailsCause while no callback of a video entry is running.
NoCause == [how |-> "none", entry |-> 0, built |-> 0]

\* revealSaveTheDateDetails (main.js:3950): boom and confetti follow from a
\* timer.  On the mobile stage the call itself follows from the
\* SAVE_THE_DATE_REVEAL_DELAY_MS timer of showMobileSaveTheDate.
revealSaveTheDateDetails(s, withCelebrateEffects) ==
  IF withCelebrateEffects /\ ~prefersReducedMotion
  THEN [s EXCEPT !.fxTimer = TRUE, !.fxCauses = @ \cup {s.detailsCause}]
  ELSE s

\* createCalendarInviteControls (main.js:3756), called by
\* buildSaveTheDateDetails (main.js:3927): handleOutsideClick is registered
\* on document (main.js:3884); the cleanup stored in container._cleanup
\* (main.js:3897) is never called.
createCalendarInviteControls(s) ==
  [s EXCEPT !.outsideClickListeners = @ + 1]

\* showSaveTheDateDetails (main.js:4028) with targetContainer = cardShell.
showSaveTheDateDetails(s, withCelebrateEffects) ==
  LET s1 == stopCelebrationAudio(resetCelebrationMediaSync(s))
      s2 == replaceCardShell(createCalendarInviteControls(s1), Frame("details", 0))
  IN revealSaveTheDateDetails(s2, withCelebrateEffects)
\* A completion callback that shows the details at once, without the video.
showCelebrationVideo_skipsVideo(s, withCelebrateEffectsOnComplete, p) ==
  showSaveTheDateDetails(s, withCelebrateEffectsOnComplete)

\* showCelebrationVideo (main.js:4150) with targetContainer = cardShell; the
\* new entry's closures keep withCelebrateEffectsOnComplete.
showCelebrationVideo(s, withCelebrateEffectsOnComplete, p) ==
  LET e == s.nextEntry
      s1 == buildCelebrationVideo(s, e, p)
      s2 == replaceCardShell(s1, Frame("video", e))
      s3 == setupCelebrationMediaSync(s2, e)
      s4 == attachCelebrationVideoHandlers(s3, e)
      s5 == [s4 EXCEPT !.nextEntry = e + 1,
                       !.entryFx = IF withCelebrateEffectsOnComplete
                                   THEN @ \cup {e} ELSE @]
  IN safelyPlayVideo(s5, e, p)

\* showSneakPeekVideo (main.js:4209) with targetContainer = cardShell.
showSneakPeekVideo(s) ==
  replaceCardShell(stopCelebrationAudio(resetCelebrationMediaSync(s)),
                   Frame("sneak", 0))
\* A placeNewFrame that appends the new frame to the stage and keeps the old
\* one.
placeNewFrame_keepsOld(s, frame) ==
  [s EXCEPT !.mobileStage = Append(@, frame)]

\* placeNewFrame of swapMobileFrame (main.js:4262)
placeNewFrame(s, frame) ==
  pauseRemovedVideo([s EXCEPT !.mobileStage = <<frame>>], s.mobileStage)

\* swapMobileFrame (main.js:4252): with a frame on the stage and motion
\* allowed the new frame is placed from a timer.
swapMobileFrame(s, frame) ==
  IF ~hasMobileStage THEN s
  ELSE IF s.mobileStage # <<>> /\ ~prefersReducedMotion
       THEN [s EXCEPT !.swapQueue = Append(@, frame)]
       ELSE placeNewFrame(s, frame)

\* showMobileSaveTheDate (main.js:4281)
showMobileSaveTheDate(s, withCelebrateEffects) ==
  IF ~hasMobileStage THEN s
  ELSE LET s1 == stopCelebrationAudio(resetCelebrationMediaSync(s))
           s2 == swapMobileFrame(createCalendarInviteControls(s1),
                                 Frame("details", 0))
       IN revealSaveTheDateDetails(s2, withCelebrateEffects)

\* showMobileVideo (main.js:4316)
showMobileVideo(s, p) ==
  IF ~hasMobileStage THEN s
  ELSE LET e == s.nextEntry
           s1 == buildCelebrationVideo(s, e, p)
           s2 == swapMobileFrame(s1, Frame("video", e))
           s3 == setupCelebrationMediaSync(s2, e)
           s4 == attachCelebrationVideoHandlers(s3, e)
           s5 == [s4 EXCEPT !.nextEntry = e + 1, !.entryFx = @ \cup {e}]
       IN safelyPlayVideo(s5, e, p)

\* showMobileSneakPeek (main.js:4358)
showMobileSneakPeek(s) ==
  IF ~hasMobileStage THEN showSneakPeekVideo(s)
  ELSE swapMobileFrame(stopCelebrationAudio(resetCelebrationMediaSync(s)),
                       Frame("sneak", 0))

\* A display duration that collapses to zero when motion is reduced.
getMobilePhotoDisplayDuration_zero(cycleIndex, photoIndex) ==
  IF prefersReducedMotion THEN 0
  ELSE LET settings == MOBILE_PHOTO_CYCLE_DURATIONS[1]
       IN Max(settings.min, settings.start - settings.step * photoIndex)

\* getMobilePhotoDisplayDuration (main.js:3283); MOBILE_PHOTO_CYCLE_DURATIONS[0]
\* of the source is the first element of the sequence here.
getMobilePhotoDisplayDuration(cycleIndex, photoIndex) ==
  IF prefersReducedMotion THEN MOBILE_PHOTO_DEFAULT_DURATION_MS
  ELSE LET settings == MOBILE_PHOTO_CYCLE_DURATIONS[1]
       IN Max(settings.min, settings.start - settings.step * photoIndex)

\* A photo step that shows a frame for every photo, with a source or not.
showMobilePhotoAtIndex_showsAll(s, index, cycleIndex, p) ==
  IF ~hasMobileStage THEN s
  ELSE IF cycleIndex >= mobilePhotoLoopCount \/ index >= numCells
       THEN showMobileVideo(s, p)
       ELSE [swapMobileFrame([s EXCEPT !.photoLog = Append(@, index)],
                             Frame("photo", index))
               EXCEPT !.photoTimer = index + 1,
                      !.photoDelay = getMobilePhotoDisplayDuration(cycleIndex, index)]

\* showMobilePhotoAtIndex (main.js:4398); photoTimer holds the index the
\* pending timer will show next, photoDelay the delay it was armed with.
RECURSIVE showMobilePhotoAtIndex(_, _, _, _)
showMobilePhotoAtIndex(s, index, cycleIndex, p) ==
  IF ~hasMobileStage THEN s
  ELSE IF cycleIndex >= mobilePhotoLoopCount THEN showMobileVideo(s, p)
  ELSE IF index >= numCells THEN showMobilePhotoAtIndex(s, 0, cycleIndex + 1, p)
  ELSE IF index \notin photoSrc
       THEN [s EXCEPT !.photoTimer = index + 1, !.photoDelay = 0]
  ELSE LET s1 == swapMobileFrame([s EXCEPT !.photoLog = Append(@, index)],
                                  Frame("photo", index))
           isFinalPhoto == /\ ~prefersReducedMotion
                           /\ cycleIndex = mobilePhotoLoopCount - 1
                           /\ index = numCells - 1
           transitionDelay == IF prefersReducedMotion THEN 0
                              ELSE CELEBRATION_TRANSITION_DELAY_MS
           displayDuration == getMobilePhotoDisplayDuration(cycleIndex, index)
           minimumDelay == IF transitionDelay > 0
                           THEN transitionDelay + MOBILE_PHOTO_TRANSITION_BUFFER_MS
                           ELSE 0
           scheduleDelay == Max(displayDuration, minimumDelay)
           finalDelay == Max(MOBILE_FINAL_PHOTO_ANIMATION_DURATION_MS
                               + MOBILE_FINAL_PHOTO_ADDITIONAL_DELAY_MS,
                             scheduleDelay)
       IN IF isFinalPhoto
          THEN [s1 EXCEPT !.finalPhotoTimer = TRUE, !.photoDelay = finalDelay]
          ELSE [s1 EXCEPT !.photoTimer = index + 1, !.photoDelay = scheduleDelay]

\* startMobileSequence (main.js:4460)
startMobileSequence(s, p) ==
  IF ~hasMobileStage THEN showCelebrationVideo(s, TRUE, p)
  ELSE IF numCells = 0 THEN showMobileVideo(s, p)
  ELSE showMobilePhotoAtIndex(s, 0, 0, p)

\* The history of the details transitions: a callback of the video entry e
\* is about to invoke one.
noteDetailsTransition(s, e) ==
  [s EXCEPT !.detailsFor = @ \cup {e},
            !.detailsAgain = IF e \in s.detailsFor THEN @ \cup {e} ELSE @]

\* The history of the effects: the callback `how` of the video entry e is
\* about to invoke a details view while entry `built` is the last one built.
detailsCalledBy(s, how, e) ==
  [s EXCEPT !.detailsCause = [how |-> how, entry |-> e, built |-> s.nextEntry - 1]]

\* The callback that invoked a details view has returned.
detailsReturned(s) == [s EXCEPT !.detailsCause = NoCause]

\* An ended callback that leaves the video view in place.
resolvedOnEnded_staysOnVideo(s, e) == s

\* resolvedOnEnded of the entry e (main.js:4166, 4336)
resolvedOnEnded(s, e) ==
  LET s1 == detailsCalledBy(noteDetailsTransition(s, e), "ended", e)
  IN detailsReturned(IF s.flow = "mobile"
                     THEN showMobileSaveTheDate(s1, TRUE)
                     ELSE showSaveTheDateDetails(s1, e \in s.entryFx))
\* An error callback that leaves the view as it is.
resolvedOnError_staysOnVideo(s, e) == s

\* resolvedOnError of the entry e (main.js:4176, 4340, 4352)
resolvedOnError(s, e) ==
  LET s1 == detailsCalledBy(noteDetailsTransition(s, e), "error", e)
  IN detailsReturned(IF s.flow = "mobile"
                     THEN showMobileSaveTheDate(s1, FALSE)
                     ELSE showSaveTheDateDetails(s1, FALSE))
\* A reveal that counts on when no border cell is left.
revealNextBorderCell_unbounded(s) ==
  IF prefersReducedMotion \/ s.isMobileExperienceActive THEN s
  ELSE [s EXCEPT !.visibleCells = @ \cup {s.revealedCells},
                 !.revealedCells = @ + 1]

\* -------------------------------------------------------------- countdown
\* A breakpoint listener that also stops the running countdown.
updateMobileExperiencePreference_stopsCountdown(s, matches) ==
  [s EXCEPT !.isMobileExperienceActive = matches, !.countdownIntervalId = FALSE]

\* updateMobileExperiencePreference (main.js:3245) for a change event whose
\* `matches` is a boolean.
updateMobileExperiencePreference(s, matches) ==
  [s EXCEPT !.isMobileExperienceActive = matches]

\* revealNextBorderCell (main.js:3319)
revealNextBorderCell(s) ==
  IF prefersReducedMotion \/ s.isMobileExperienceActive THEN s
  ELSE IF s.revealedCells < numCells
       THEN [s EXCEPT !.visibleCells = @ \cup {s.revealedCells},
                      !.revealedCells = @ + 1]
       ELSE s

\* A tick handler that takes 1 for the terminal value, as the older variants
\* of the countdown do.
handleCountdownTick_stopsAtOne(s) ==
  LET s1 == [s EXCEPT !.currentValue = @ - 1, !.tickRenders = @ + 1]
  IN IF s1.currentValue <= 1
     THEN [revealNextBorderCell([s1 EXCEPT !.countdownIntervalId = FALSE])
             EXCEPT !.completionTimer = TRUE]
     ELSE revealNextBorderCell(s1)

\* handleCountdownTick (main.js:4475); the interval is armed only when
\* countdownNumber exists.
handleCountdownTick(s) ==
  LET s1 == [s EXCEPT !.currentValue = @ - 1, !.tickRenders = @ + 1]
  IN IF s1.currentValue <= 0
     THEN [revealNextBorderCell([s1 EXCEPT !.countdownIntervalId = FALSE])
             EXCEPT !.completionTimer = TRUE]
     ELSE revealNextBorderCell(s1)
\* A start that arms the interval although the page has no countdown number.
startCountdownFlow_armsWithoutTarget(s, p) ==
  IF s.isMobileExperienceActive
  THEN startMobileSequence(primeMobileCelebrationVideoPlayback(s, p), p)
  ELSE [revealNextBorderCell(s) EXCEPT !.countdownIntervalId = TRUE,
                                       !.armCount = @ + 1]

\* startCountdownFlow (main.js:4516)
startCountdownFlow(s, p) ==
  IF s.isMobileExperienceActive
  THEN startMobileSequence(primeMobileCelebrationVideoPlayback(s, p), p)
  ELSE IF ~hasCountdownNumber
       THEN showCelebrationVideo([s EXCEPT !.completionCalls = @ + 1], TRUE, p)
       ELSE [revealNextBorderCell(s) EXCEPT !.countdownIntervalId = TRUE,
                                            !.armCount = @ + 1]

\* startExperience (main.js:4536)
startExperience(s, p) ==
  IF s.hasStarted THEN s
  ELSE LET s1 == [s EXCEPT !.hasStarted = TRUE,
                           !.startListeners = {},
                           !.overlayTimer = s.startOverlay,
                           !.startButton = FALSE,
                           !.flow = IF s.isMobileExperienceActive /\ hasMobileStage
                                    THEN "mobile" ELSE "desktop"]
           s2 == primeCelebrationAudioPlayback(s1, p)
       IN IF s2.isMobileExperienceActive
          THEN startMobileSequence(primeMobileCelebrationVideoPlayback(s2, p), p)
          ELSE startCountdownFlow(s2, p)

\* ------------------------------------- the countdown of the earlier script
\* The state of the first DOMContentLoaded listener of src/unnamed/part_004
\* before a start: intervalId is the variable, intervalArmed tells whether
\* an interval is live, settleDelay is the delay in ms of the finish timer;
\* armCount, renders and completions are history.  variant tells the first
\* script of the file from the second.
part004Init ==
  [variant |-> 1,
   hasStarted |-> FALSE, n |-> countdownStartValue, intervalId |-> FALSE,
   intervalArmed |-> FALSE, finishTimer |-> FALSE, settleDelay |-> 0,
   countdownResolved |-> FALSE,
   armCount |-> 0, renders |-> 0, completions |-> 0]

\* The state of the second script of src/unnamed/part_004 before a start
\* (part_004:374, 518-549).
part004SecondInit ==
  [part004Init EXCEPT !.variant = 2, !.n = secondCountdownStartValue]

\* A start that arms the interval whether or not the countdown has started.
startCountdown_noGuard(d) ==
  [d EXCEPT !.hasStarted = TRUE, !.n = countdownStartValue,
            !.intervalId = TRUE, !.intervalArmed = TRUE, !.armCount = @ + 1]

\* startCountdown (part_004:290)
startCountdown(d) ==
  IF d.hasStarted THEN d
  ELSE [d EXCEPT !.hasStarted = TRUE, !.n = countdownStartValue,
                 !.intervalId = TRUE, !.intervalArmed = TRUE, !.armCount = @ + 1]

\* The interval callback of startCountdown (part_004:310)
countdownIntervalCallback(d) ==
  LET d1 == [d EXCEPT !.n = @ - 1, !.renders = @ + 1]
  IN IF d1.n <= 0
     THEN [d1 EXCEPT !.n = 0, !.intervalArmed = FALSE, !.finishTimer = TRUE,
                     !.settleDelay = 650]
     ELSE d1

\* startCountdown of the second script (part_004:559)
secondStartCountdown(d) ==
  IF d.hasStarted THEN d
  ELSE [d EXCEPT !.hasStarted = TRUE, !.n = secondCountdownStartValue,
                 !.intervalId = TRUE, !.intervalArmed = TRUE, !.armCount = @ + 1]

\* An interval callback that lets the interval run on after the tick that
\* shows the terminal value.
secondCountdownIntervalCallback_keepsInterval(d) ==
  LET d1 == [d EXCEPT !.n = IF @ - 1 < 0 THEN 0 ELSE @ - 1, !.renders = @ + 1]
  IN IF d1.n <= 1
     THEN [d1 EXCEPT !.finishTimer = TRUE, !.settleDelay = 650]
     ELSE d1

\* The interval callback of the second script (part_004:597)
secondCountdownIntervalCallback(d) ==
  LET d1 == [d EXCEPT !.n = IF @ - 1 < 0 THEN 0 ELSE @ - 1, !.renders = @ + 1]
  IN IF d1.n <= 1
     THEN [d1 EXCEPT !.intervalArmed = FALSE, !.finishTimer = TRUE,
                     !.settleDelay = 650]
     ELSE d1

\* finishCountdown (part_004:282) with countdownTimer, the resolver of the
\* countdownComplete promise (part_004:175); the second script has the same
\* two functions (part_004:551, 523).
finishCountdown(d) ==
  LET d1 == [d EXCEPT !.finishTimer = FALSE, !.intervalId = FALSE,
                      !.intervalArmed = FALSE]
  IN IF d1.countdownResolved THEN d1
     ELSE [d1 EXCEPT !.countdownResolved = TRUE, !.completions = @ + 1]
\* Reactions that swallow the rejection of a video view's play promise, as
\* `playPromise.catch(() => {})` does.
runJob_swallowsRejection(s, j) ==
  IF j.k = "v"
  THEN IF j.id = 0 THEN finalizeVideoPrimer(s, FALSE)
       ELSE [s EXCEPT !.lastRejections = @ + 1]
  ELSE IF j.k = "aEnsure" THEN ensureCatch(s, j.why)
  ELSE finalizeAudioPrimer(s, FALSE)

\* ------------------------------------------- the countdown of the demo page
\* showNextImage (countdown-demo.js:100)
showNextImage(d) ==
  IF d.totalImages = 0 THEN d
  ELSE LET nextIndex == IF d.currentImage + 1 < d.totalImages - 1
                        THEN d.currentImage + 1 ELSE d.totalImages - 1
       IN IF nextIndex = d.currentImage THEN d
          ELSE [d EXCEPT !.currentImage = nextIndex]

\* The state of the demo script when it has run (countdown-demo.js:61-163)
\* on a page with `total` stack images: 10 is shown, the first image is
\* active and the interval is armed.  renders and completions are history.
demoInit(total) ==
  showNextImage([totalImages |-> total, n |-> demoStartValue, currentImage |-> -1,
                 timer |-> TRUE, settleTimer |-> FALSE, settleDelay |-> 0,
                 countdownResolved |-> FALSE, renders |-> 0, completions |-> 0])

\* resolveCountdown (countdown-demo.js:115)
resolveCountdown(d) ==
  IF d.countdownResolved THEN d
  ELSE [d EXCEPT !.countdownResolved = TRUE, !.completions = @ + 1]

\* The interval callback `timer` (countdown-demo.js:148)
demoTimerCallback(d) ==
  LET d1 == [d EXCEPT !.n = @ - 1]
  IN IF d1.n < 1
     THEN resolveCountdown([d1 EXCEPT !.timer = FALSE])
     ELSE LET d2 == showNextImage([d1 EXCEPT !.renders = @ + 1])
          IN IF d2.n = 1
             THEN [d2 EXCEPT !.timer = FALSE, !.settleTimer = TRUE,
                             !.settleDelay = 650]
             ELSE d2

\* ------------------------------------------------ the grids of image frames
\* The scripts that reveal a grid of image frames while they count down:
\* "schedule" is the first script of src/unnamed/part_004, "forNumber" its
\* second script, "hits" the first script of src/unnamed/part_007.  A frame
\* is revealed when revealNextImages or revealNextImage takes it: the
\* function sets its duration, schedules its `active` class and advances
\* the index.  revealed lists the indexes of the frames taken, batches the
\* number of frames each reveal step took, completions the runs of the
\* completion callback; the three are history.
gridStartValue(variant) ==
  CASE variant = "schedule" -> countdownStartValue
    [] variant = "forNumber" -> secondCountdownStartValue
    [] OTHER -> hitStartValue

gridInit(variant, total) ==
  [variant |-> variant, totalImages |-> total,
   currentImage |-> -1, revealStepIndex |-> 0, hitIndex |-> 0,
   hasStarted |-> FALSE, n |-> gridStartValue(variant),
   intervalArmed |-> FALSE, finishTimer |-> FALSE,
   revealed |-> <<>>, batches |-> <<>>, completions |-> 0]

\* A schedule that hands every step the base count only.
revealSchedule_baseOnly(total) ==
  [index \in 0..(totalCountdownSteps - 1) |-> total \div totalCountdownSteps]

\* revealSchedule (part_004:131-136)
revealSchedule(total) ==
  LET baseRevealCount == total \div totalCountdownSteps
      extraRevealSteps == total % totalCountdownSteps
  IN [index \in 0..(totalCountdownSteps - 1) |->
        baseRevealCount + (IF index < extraRevealSteps THEN 1 ELSE 0)]

\* revealNextImages (part_004:140-153, 489-501)
RECURSIVE revealNextImages(_, _)
revealNextImages(g, count) ==
  IF count <= 0 \/ g.currentImage >= g.totalImages - 1 THEN g
  ELSE LET nextIndex == g.currentImage + 1
       IN revealNextImages([g EXCEPT !.currentImage = nextIndex,
                                     !.revealed = Append(@, nextIndex)],
                           count - 1)

\* One reveal step: `step` applied to g, with the number of frames it took
\* appended to batches.
noteBatch(g, g1) ==
  [g1 EXCEPT !.batches = Append(@, Len(g1.revealed) - Len(g.revealed))]

\* applyScheduledReveal (part_004:155-161)
applyScheduledReveal(g) ==
  LET count == IF g.revealStepIndex \in DOMAIN revealSchedule(g.totalImages)
               THEN revealSchedule(g.totalImages)[g.revealStepIndex] ELSE 0
      g1 == IF count > 0 THEN revealNextImages(g, count) ELSE g
  IN noteBatch(g, [g1 EXCEPT !.revealStepIndex = @ + 1])

\* Math.ceil(a / b) for a >= 0 and b > 0
CeilDiv(a, b) == (a + b - 1) \div b

\* revealForNumber (part_004:503-509)
revealForNumber(g, value) ==
  LET remainingImages == g.totalImages - (g.currentImage + 1)
      remainingSteps == IF value + 1 > 1 THEN value + 1 ELSE 1
      ceil == CeilDiv(remainingImages, remainingSteps)
      toReveal == IF ceil > 1 THEN ceil ELSE 1
  IN IF remainingImages <= 0 THEN noteBatch(g, g)
     ELSE noteBatch(g, revealNextImages(g, toReveal))

\* revealNextImage (part_007:103-117); countdownFrames is empty on a page
\* without the #countdownImages container.
revealNextImage(g) ==
  IF g.hitIndex >= g.totalImages THEN g
  ELSE [g EXCEPT !.revealed = Append(@, g.hitIndex), !.hitIndex = @ + 1]

\* The start handlers with their first reveal step: startCountdown
\* (part_004:290-308, 559-595) and start (part_007:73-119), which removes
\* its own listener.
gridStart(g) ==
  IF g.hasStarted THEN g
  ELSE LET g1 == [g EXCEPT !.hasStarted = TRUE, !.n = gridStartValue(g.variant),
                           !.intervalArmed = TRUE]
       IN CASE g.variant = "schedule" -> applyScheduledReveal(g1)
            [] g.variant = "forNumber" -> revealForNumber(g1, g1.n)
            [] OTHER -> noteBatch(g1, revealNextImage(g1))

\* The interval callbacks (part_004:310-325, 597-609; part_007:126-155)
gridIntervalCallback(g) ==
  CASE g.variant = "schedule" ->
         LET g1 == applyScheduledReveal([g EXCEPT !.n = @ - 1])
         IN IF g1.n <= 0
            THEN [g1 EXCEPT !.n = 0, !.intervalArmed = FALSE, !.finishTimer = TRUE]
            ELSE g1
    [] g.variant = "forNumber" ->
         LET g0 == [g EXCEPT !.n = IF @ - 1 < 0 THEN 0 ELSE @ - 1]
             g1 == revealForNumber(g0, g0.n)
         IN IF g1.n <= 1
            THEN [g1 EXCEPT !.intervalArmed = FALSE, !.finishTimer = TRUE]
            ELSE g1
    [] OTHER ->
         LET g0 == [g EXCEPT !.n = @ - 1]
             g1 == revealNextImage(g0)
             g2 == IF g0.n <= 4 THEN revealNextImage(g1) ELSE g1
             g3 == noteBatch(g0, IF g0.n <= 2 THEN revealNextImage(g2) ELSE g2)
         IN IF g3.n <= 1
            THEN [g3 EXCEPT !.intervalArmed = FALSE, !.finishTimer = TRUE]
            ELSE g3

\* The callbacks of the settle timers: finishCountdown after 650 ms
\* (part_004:320-322), revealForNumber(0) and finishCountdown after 650 ms
\* (part_004:604-607), the hiding of the countdown and video.play() after
\* 500 ms (part_007:140-153).
gridSettleCallback(g) ==
  LET g1 == IF g.variant = "forNumber" THEN revealForNumber(g, 0) ELSE g
  IN [g1 EXCEPT !.finishTimer = FALSE, !.completions = @ + 1]

\* ------------------------------------------------- the promise-gated pages
\* The scripts that switch to the video when two promises are fulfilled:
\* "demo" is src/assets/js/countdown-demo.js, "part_003" the script of
\* src/unnamed/part_003, "part_004" the second script of src/unnamed/part_004,
\* which counts only after a start.  countdownComplete and videoReady tell
\* whether the promise is fulfilled (waitForVideo in part_004),
\* readyListeners holds the events onCanPlay / onReady is registered for,
\* fired the readiness events the video has dispatched.  showVideoCalls
\* counts the runs of the reaction of Promise.all and is history.
gateStartValue(variant) ==
  CASE variant = "demo" -> demoStartValue
    [] variant = "part_003" -> part003StartValue
    [] OTHER -> secondCountdownStartValue

gateInit(variant, hasVideo, readyAtLoad) ==
  [variant |-> variant, hasVideo |-> hasVideo,
   hasStarted |-> variant # "part_004", n |-> gateStartValue(variant),
   intervalArmed |-> variant # "part_004", settleTimer |-> FALSE,
   countdownResolved |-> FALSE, countdownComplete |-> FALSE,
   videoReady |-> ~hasVideo \/ readyAtLoad,
   readyListeners |-> IF hasVideo /\ ~readyAtLoad
                      THEN {"canplay", "loadeddata"} ELSE {},
   fired |-> IF hasVideo /\ readyAtLoad THEN {"canplay", "loadeddata"} ELSE {},
   allFulfilled |-> FALSE, showVideoCalls |-> 0]

\* A combined promise that is fulfilled as soon as one of the two is.
promiseAll_race(g) ==
  IF (g.countdownComplete \/ g.videoReady) /\ ~g.allFulfilled
  THEN [g EXCEPT !.allFulfilled = TRUE, !.showVideoCalls = @ + 1]
  ELSE g

\* Promise.all([countdownComplete, videoReady]).then(...)
\* (countdown-demo.js:165, part_003:165, part_004:623): the reaction runs as
\* a microtask of the task that fulfils the second promise.
promiseAll(g) ==
  IF g.countdownComplete /\ g.videoReady /\ ~g.allFulfilled
  THEN [g EXCEPT !.allFulfilled = TRUE, !.showVideoCalls = @ + 1]
  ELSE g

\* resolveCountdown (countdown-demo.js:115, part_003:112) and finish
\* (part_004:523)
gateResolveCountdown(g) ==
  IF g.countdownResolved THEN g
  ELSE promiseAll([g EXCEPT !.countdownResolved = TRUE,
                            !.countdownComplete = TRUE])

\* onCanPlay (countdown-demo.js:132, part_003:129) and onReady (part_004:539)
onCanPlay(g) ==
  promiseAll([g EXCEPT !.readyListeners = {}, !.videoReady = TRUE])

\* startCountdown of the second script of part_004 (part_004:559)
gateStartCountdown(g) ==
  IF g.hasStarted THEN g
  ELSE [g EXCEPT !.hasStarted = TRUE, !.n = gateStartValue(g.variant),
                 !.intervalArmed = TRUE]

\* The interval callbacks (countdown-demo.js:148, part_003:145,
\* part_004:597)
gateIntervalCallback(g) ==
  IF g.variant = "part_004"
  THEN LET g1 == [g EXCEPT !.n = IF @ - 1 < 0 THEN 0 ELSE @ - 1]
       IN IF g1.n <= 1
          THEN [g1 EXCEPT !.intervalArmed = FALSE, !.settleTimer = TRUE]
          ELSE g1
  ELSE LET g1 == [g EXCEPT !.n = @ - 1]
       IN IF g1.n < 1
          THEN gateResolveCountdown([g1 EXCEPT !.intervalArmed = FALSE])
          ELSE IF g1.n = 1
               THEN [g1 EXCEPT !.intervalArmed = FALSE, !.settleTimer = TRUE]
               ELSE g1

\* The 650 ms timers: resolveCountdown (countdown-demo.js:161, part_003:158)
\* and finishCountdown (part_004:604-607, 551).
gateSettleCallback(g) ==
  gateResolveCountdown([g EXCEPT !.settleTimer = FALSE, !.intervalArmed = FALSE])

\* ------------------------------------------- intro card of the story page
\* The second script of src/unnamed/part_008.  isMobileStory is the media
\* query of line 113; hasVideo tells whether `video` exists (on the mobile
\* page the stage and its video, on the desktop page the background video).
\* The intro card and, on the desktop page, the start prompt exist.
\* revealFrames counts the animation frames requested by revealIntroCard,
\* listeners holds the video events a once-listener is registered for,
\* plays the pending promises of video.play(), playing tells whether the
\* video is rendering frames.  Time is not modelled: an armed timer fires at
\* any moment, which the free moment of the tap on the start prompt makes
\* possible for the timer armed at page load.  stageStarted, began,
\* completions and reveals are history: startVideoStage has run, the
\* countdown has called video.play(), the causes of the runs of
\* handleCompletion, and for every call of revealIntroCard its cause and
\* the state of the countdown at the call.  The image frames of the desktop
\* countdown are the grid of part_007 and are left out here.
mobilePhotoCount == 16

storyInit(isMobileStory, hasVideo) ==
  [isMobileStory |-> isMobileStory, hasVideo |-> hasVideo,
   introVisible |-> FALSE,
   revealFrames |-> IF ~isMobileStory /\ ~hasVideo THEN 1 ELSE 0,
   currentIndex |-> -1, photoTimer |-> isMobileStory, stageTimer |-> FALSE,
   stageVisible |-> FALSE, playFrame |-> FALSE,
   fallbackTimer |-> ~isMobileStory /\ hasVideo,
   listeners |-> IF ~isMobileStory /\ hasVideo
                 THEN {"ended", "error", "abort"} ELSE {},
   paused |-> TRUE, muted |-> isMobileStory /\ hasVideo, playing |-> FALSE,
   plays |-> {}, dispatched |-> {},
   hasStarted |-> FALSE, n |-> hitStartValue, intervalArmed |-> FALSE,
   settleTimer |-> FALSE,
   stageStarted |-> FALSE, began |-> FALSE, completions |-> {},
   reveals |-> IF ~isMobileStory /\ ~hasVideo
               THEN {[how |-> "no video", started |-> FALSE,
                      counting |-> FALSE, began |-> FALSE]}
               ELSE {}]

\* revealIntroCard (part_008:314)
revealIntroCard(s, how) ==
  [s EXCEPT !.revealFrames = @ + 1,
            !.reveals = @ \cup {[how |-> how, started |-> s.hasStarted,
                                 counting |-> s.intervalArmed \/ s.settleTimer,
                                 began |-> s.began]}]

\* showCard (part_008:197)
showCard(s, how) ==
  IF ~s.introVisible THEN revealIntroCard(s, how) ELSE s

\* video.pause()
storyVideoPause(s) == [s EXCEPT !.paused = TRUE, !.playing = FALSE]

\* video.play(): the promise named p is pending
storyVideoPlay(s, p) == [s EXCEPT !.paused = FALSE, !.plays = @ \cup {p}]

\* A handleCompletion that leaves the fallback timer armed.
handleCompletion_keepsTimer(s, how) ==
  showCard([storyVideoPause(s) EXCEPT !.listeners = {}, !.stageVisible = FALSE,
                                 !.completions = @ \cup {how}], how)

\* handleCompletion (part_008:212)
handleCompletion(s, how) ==
  showCard([storyVideoPause(s) EXCEPT !.fallbackTimer = FALSE, !.listeners = {},
                                 !.stageVisible = FALSE,
                                 !.completions = @ \cup {how}], how)

\* startVideoStage (part_008:203)
startVideoStage(s) ==
  LET s1 == [s EXCEPT !.stageTimer = FALSE, !.stageStarted = TRUE]
  IN IF ~s.hasVideo
     THEN showCard(s1, "no video")
     ELSE [s1 EXCEPT !.stageVisible = TRUE, !.fallbackTimer = TRUE,
                     !.listeners = {"ended", "error"}, !.playFrame = TRUE]

\* attemptPlay (part_008:231)
attemptPlay(s) == storyVideoPlay([s EXCEPT !.playFrame = FALSE], "first")

\* showNextPhoto (part_008:246)
showNextPhoto(s) ==
  IF s.currentIndex + 1 >= mobilePhotoCount
  THEN [s EXCEPT !.currentIndex = @ + 1, !.photoTimer = FALSE,
                 !.stageTimer = TRUE]
  ELSE [s EXCEPT !.currentIndex = @ + 1]

\* handleAndClear (part_008:330), run by the once-listener of the event ev
handleAndClear(s, ev) ==
  revealIntroCard([s EXCEPT !.fallbackTimer = FALSE,
                            !.listeners = @ \ {ev}], ev)

\* start (part_008:347), the click listener of the start prompt
storyStart(s) ==
  storyVideoPlay([s EXCEPT !.hasStarted = TRUE, !.muted = TRUE,
                      !.n = hitStartValue, !.intervalArmed = TRUE], "prime")

\* The interval callback of start (part_008:403)
storyIntervalCallback(s) ==
  LET n1 == s.n - 1
  IN IF n1 <= 1
     THEN [s EXCEPT !.n = n1, !.intervalArmed = FALSE, !.settleTimer = TRUE]
     ELSE [s EXCEPT !.n = n1]

\* The 500 ms callback of start (part_008:416)
storySettleCallback(s) ==
  storyVideoPlay([s EXCEPT !.settleTimer = FALSE, !.muted = FALSE,
                      !.began = TRUE], "main")

\* The pending promises of play() are fulfilled: the reaction of the
\* priming promise pauses the video and rewinds it (part_008:364).
playsFulfilled(s) ==
  LET s1 == [s EXCEPT !.plays = {}, !.playing = TRUE]
  IN IF "prime" \in s.plays THEN storyVideoPause(s1) ELSE s1

\* The pending promises of play() are rejected: after the first refusal the
\* mobile story mutes the video and plays again, after the second one it
\* completes (part_008:234-239); the desktop page ignores a refusal.
playsRejected(s) ==
  LET s1 == [s EXCEPT !.plays = {}]
  IN IF "first" \in s.plays
     THEN storyVideoPlay([s1 EXCEPT !.muted = TRUE], "second")
     ELSE IF "second" \in s.plays
     THEN handleCompletion(s1, "refused")
     ELSE s1

\* The video dispatches ev: the listener of the page runs if it is
\* registered.  A video that has ended is paused, one that has failed
\* renders no frames.
videoDispatches(s, ev) ==
  LET s1 == [s EXCEPT !.dispatched = @ \cup {ev}]
      s2 == CASE ev = "ended" -> storyVideoPause(s1)
              [] ev = "error" -> [s1 EXCEPT !.playing = FALSE]
              [] OTHER -> s1
  IN IF ev \notin s.listeners THEN s2
     ELSE IF s.isMobileStory THEN handleCompletion(s2, ev)
     ELSE handleAndClear(s2, ev)

\* The fallback timer fires (part_008:221, 329)
fallbackCallback(s) ==
  IF s.isMobileStory THEN handleCompletion(s, "fallback")
  ELSE revealIntroCard([s EXCEPT !.fallbackTimer = FALSE], "fallback")

\* The animation frame of revealIntroCard (part_008:316)
revealFrameCallback(s) ==
  [s EXCEPT !.revealFrames = @ - 1, !.introVisible = TRUE]

\* ------------------------------------------------ per-frame durations
\* The duration each script computes for the frame at a position: "demo" is
\* showNextImage of countdown-demo.js, "hits" is revealNextImage of
\* part_007, "mobile" is getMobilePhotoDisplayDuration of main.js.  The
\* scripts divide by totalImages - 1; the model keeps the arithmetic exact
\* by carrying that divisor as `scale`: a duration d of "demo" stands for
\* d / scale milliseconds.  "hits" formats its duration with toFixed(2) and
\* is kept in hundredths of a second, "mobile" is in milliseconds.
\* durations lists the durations computed so far, index is the position of
\* the next frame.
demoBaseDuration == 720
demoMinDuration == 320
hitBaseDuration == 880
hitMinDuration == 240
hitDurationRange == 460

hitScale(total) == IF total > 1 THEN total - 1 ELSE 1

hitInit(variant, total) ==
  [variant |-> variant, total |-> total, scale |-> hitScale(total),
   index |-> 0, durations |-> <<>>]

\* A duration that grows with the position of the frame.
hitDuration_increasing(total, nextIndex) ==
  LET durationStep == IF total > 1 THEN demoBaseDuration - demoMinDuration ELSE 0
  IN Max(demoMinDuration * hitScale(total),
         demoBaseDuration * hitScale(total) + durationStep * nextIndex)

\* duration of showNextImage (countdown-demo.js:98, 105), times scale:
\* durationStep * scale is baseDuration - minDuration, or 0 for one image.
hitDuration(total, nextIndex) ==
  LET durationStep == IF total > 1 THEN demoBaseDuration - demoMinDuration ELSE 0
  IN Max(demoMinDuration * hitScale(total),
         demoBaseDuration * hitScale(total) - durationStep * nextIndex)

\* (num / den milliseconds as seconds).toFixed(2), in hundredths of a second
toFixed2(num, den) == (num + 5 * den) \div (10 * den)

\* duration of revealNextImage (part_007:107-109): progress * scale is
\* hitIndex, or 1 when there is a single frame.
revealHitDuration(frames, hitIndex) ==
  LET progress == IF frames > 1 THEN hitIndex ELSE 1
  IN toFixed2(Max(hitMinDuration * hitScale(frames),
                  hitBaseDuration * hitScale(frames) - progress * hitDurationRange),
              hitScale(frames))

\* The script computes the duration of the next frame.
hitNext(h) ==
  LET d == CASE h.variant = "demo" -> hitDuration(h.total, h.index)
             [] h.variant = "hits" -> revealHitDuration(h.total, h.index)
             [] OTHER -> getMobilePhotoDisplayDuration(0, h.index)
  IN [h EXCEPT !.index = @ + 1, !.durations = Append(@, d)]

\* ------------------------------------------------- playback position sync
\* The playback positions a media element takes in the model, in ms.
Times == {k * TimeStepMs : k \in 0..MaxTimeSteps}

Abs(x) == IF x < 0 THEN -x ELSE x

\* Number.isFinite of a playback position; currentTime of a media element is
\* always a finite number.
isFinite(x) == x \in Int

\* A video and its audio right after the sync is set up: both at 0
\* (main.js:4074, 2591).  lastEvent, driftBefore and resets describe the last
\* media event: its name, the drift the listeners found and how often they
\* set audio.currentTime.
mediaSyncInit(pair) ==
  [pair |-> pair, videoTime |-> 0, audioTime |-> 0,
   lastEvent |-> "none", driftBefore |-> 0, resets |-> 0]

\* A sync that sets the audio position whatever the drift is.
ensureAudioSync_always(m) ==
  [m EXCEPT !.audioTime = m.videoTime, !.resets = @ + 1]

\* ensureAudioSync of setupCelebrationMediaSync (main.js:2493)
ensureAudioSync(m) ==
  IF ~isFinite(m.videoTime) THEN m
  ELSE IF \/ ~isFinite(m.audioTime)
          \/ Abs(m.audioTime - m.videoTime) > celebrationSyncToleranceMs
       THEN [m EXCEPT !.audioTime = m.videoTime, !.resets = @ + 1]
       ELSE m

\* syncTime of setupSneakPeekMediaSync (main.js:2630)
syncTime(m) ==
  IF ~isFinite(m.videoTime) THEN m
  ELSE IF \/ ~isFinite(m.audioTime)
          \/ Abs(m.audioTime - m.videoTime) > sneakPeekSyncToleranceMs
       THEN [m EXCEPT !.audioTime = m.videoTime, !.resets = @ + 1]
       ELSE m

\* The media event ev of the video dispatched to the listeners the sync
\* registered: ensureAudioSync on play (first call of handleVideoPlay),
\* seeking and timeupdate (main.js:2600-2603), syncTime on play (through
\* syncAndResumeAudio), seeking and seeked (main.js:2678-2697).
dispatchMediaEvent(m, ev) ==
  LET m0 == [m EXCEPT !.lastEvent = ev, !.resets = 0,
                      !.driftBefore = Abs(m.audioTime - m.videoTime)]
  IN IF m.pair = "celebration"
     THEN IF ev \in {"play", "seeking", "timeupdate"}
          THEN ensureAudioSync(m0) ELSE m0
     ELSE IF ev \in {"play", "seeking", "seeked"}
          THEN syncTime(m0) ELSE m0

\* ------------------------------------------------------- calendar export
\* Text is a sequence of pieces: a piece is one of the characters that
\* escapeIcsText rewrites, or a run of characters it leaves alone.
\* CALENDAR_EVENT (main.js:2062)
CALENDAR_EVENT ==
  [title |-> <<"Wedding Weekend: Lorraine & Christopher">>,
   location |-> <<"Chalet View Lodge", ",", " 72056 CA-70", ",",
                  " Blairsden-Graeagle", ",", " CA 96103">>,
   website |-> "https://becomingcummings.love",
   description |-> <<"Join us for our wedding weekend celebration. Visit https://becomingcummings.love for details.">>,
   startDate |-> "20260911",
   endDateExclusive |-> "20260914",
   uid |-> <<"wedding-weekend-20260911@becomingcummings.love">>]

\* The characters a description is made of in the model: a letter and the
\* four characters escapeIcsText rewrites.
IcsChars == {"a", ",", ";", "\\", "\n"}

\* The descriptions the export is run on: every text of at most MaxLen
\* characters, and the event's own.
Descriptions ==
  UNION {[1..n -> IcsChars] : n \in 0..MaxLen} \cup {CALENDAR_EVENT.description}

\* String.prototype.replace with a global pattern of one character.
RECURSIVE replaceAll(_, _, _)
replaceAll(value, ch, with) ==
  IF value = <<>> THEN <<>>
  ELSE (IF Head(value) = ch THEN with ELSE <<Head(value)>>)
         \o replaceAll(Tail(value), ch, with)

\* An escape that leaves the semicolons as they are.
escapeIcsText_keepsSemicolons(value) ==
  replaceAll(
    replaceAll(
      replaceAll(value, "\\", <<"\\", "\\">>),
      ",", <<"\\", ",">>),
    "\n", <<"\\", "n">>)

\* escapeIcsText (main.js:3578)
escapeIcsText(value) ==
  replaceAll(
    replaceAll(
      replaceAll(
        replaceAll(value, "\\", <<"\\", "\\">>),
        ";", <<"\\", ";">>),
      ",", <<"\\", ",">>),
    "\n", <<"\\", "n">>)

\* The clock readings of the model, as Date.prototype.toISOString gives them.
IsoDates ==
  {<<"2026", "-", "01", "-", "02", "T", "03", ":", "04", ":", "05", ".678", "Z">>,
   <<"2026", "-", "09", "-", "11", "T", "00", ":", "00", ":", "00", ".000", "Z">>}

\* formatIcsTimestamp (main.js:3590): dashes and colons are removed, and the
\* milliseconds before the final Z.
formatIcsTimestamp(iso) ==
  LET bare == replaceAll(replaceAll(iso, "-", <<>>), ":", <<>>)
      n == Len(bare)
  IN IF n >= 2 /\ bare[n] = "Z" /\ Len(bare[n - 1]) = 4
     THEN SubSeq(bare, 1, n - 2) \o <<"Z">>
     ELSE bare

\* The pieces of a line as one string.
RECURSIVE joinPieces(_)
joinPieces(pieces) ==
  IF pieces = <<>> THEN "" ELSE Head(pieces) \o joinPieces(Tail(pieces))

\* createCalendarIcsContent (main.js:3597) for the event ev at the clock
\* reading iso: the lines of the file in order, each a sequence of pieces;
\* the file is the lines joined and ended by CRLF.
createCalendarIcsContent(ev, iso) ==
  <<<<"BEGIN:VCALENDAR">>,
    <<"VERSION:2.0">>,
    <<"PRODID:-//Becoming Cummings//Save The Date//EN">>,
    <<"CALSCALE:GREGORIAN">>,
    <<"METHOD:PUBLISH">>,
    <<"BEGIN:VEVENT">>,
    <<"DTSTAMP:">> \o formatIcsTimestamp(iso),
    <<"DTSTART;VALUE=DATE:", ev.startDate>>,
    <<"DTEND;VALUE=DATE:", ev.endDateExclusive>>,
    <<"SUMMARY:">> \o escapeIcsText(ev.title),
    <<"DESCRIPTION:">> \o escapeIcsText(ev.description),
    <<"LOCATION:">> \o escapeIcsText(ev.location),
    <<"UID:">> \o escapeIcsText(ev.uid),
    <<"URL:", ev.website>>,
    <<"END:VEVENT">>,
    <<"END:VCALENDAR">>>>

\* The calendar file links of the page: one per details view built.
CalendarLinks == {"first", "second"}

\* The calendar export before a download, for an event with the description
\* d: nothing generated, no object URL cached (main.js:3571).  Object URLs
\* are numbered in the order createObjectURL returns them and 0 stands for
\* no URL: cachedCalendarBlobUrl is the variable of the source, linkHref the
\* blob URL in the href of each link, live the URLs created and not revoked;
\* urlsCreated and live are history.
calendarInit(d) ==
  [event |-> [CALENDAR_EVENT EXCEPT !.description = d],
   icsContent |-> <<>>, cachedCalendarBlobUrl |-> 0,
   linkHref |-> [l \in CalendarLinks |-> 0],
   urlsCreated |-> 0, live |-> {}]

\* window.URL.revokeObjectURL(url); revoking a revoked URL does nothing.
revokeObjectURL(c, url) == [c EXCEPT !.live = @ \ {url}]

\* A getCalendarIcsUrl that forgets the cached URL without revoking it.
getCalendarIcsUrl_keepsPrevious(c, iso) ==
  LET url == c.urlsCreated + 1
  IN [c EXCEPT !.icsContent = createCalendarIcsContent(c.event, iso),
               !.urlsCreated = url, !.live = @ \cup {url},
               !.cachedCalendarBlobUrl = url]

\* getCalendarIcsUrl (main.js:3625)
getCalendarIcsUrl(c, iso) ==
  LET c1 == IF c.cachedCalendarBlobUrl # 0
            THEN [revokeObjectURL(c, c.cachedCalendarBlobUrl)
                    EXCEPT !.cachedCalendarBlobUrl = 0]
            ELSE c
      url == c1.urlsCreated + 1
  IN [c1 EXCEPT !.icsContent = createCalendarIcsContent(c.event, iso),
                !.urlsCreated = url, !.live = @ \cup {url},
                !.cachedCalendarBlobUrl = url]

\* cleanupCalendarBlobUrl (main.js:3648)
cleanupCalendarBlobUrl(c) ==
  IF c.cachedCalendarBlobUrl # 0
  THEN [revokeObjectURL(c, c.cachedCalendarBlobUrl)
          EXCEPT !.cachedCalendarBlobUrl = 0]
  ELSE c

\* The click listener of a calendar file link (main.js:3711-3739)
calendarLinkClick(c, link, iso) ==
  LET c1 == getCalendarIcsUrl(c, iso)
      freshBlobUrl == c1.cachedCalendarBlobUrl
      c2 == IF c1.linkHref[link] # 0
            THEN revokeObjectURL(c1, c1.linkHref[link]) ELSE c1
  IN [c2 EXCEPT !.linkHref[link] = freshBlobUrl]

\* ------------------------------------------------------- attendance form
\* The attendance form when its script has run, hidden until the trigger is
\* clicked.  script tells cant-attend.js from part_000; hasSubmitButton is
\* what form.querySelector('button[type="submit"]') found.  inFlight counts
\* the fetch promises not yet settled, hideTimers the pending 2000 ms timers;
\* posts counts the POST requests issued and lastEvent names the last task
\* (history).
attendanceInit(script, hasSubmitButton) ==
  [script |-> script, hasSubmitButton |-> hasSubmitButton,
   display |-> "none", form |-> TRUE, message |-> "none",
   submitDisabled |-> FALSE, introCard |-> TRUE, thankYou |-> FALSE,
   inFlight |-> 0, hideTimers |-> 0, posts |-> 0, lastEvent |-> "none"]

\* The submit listener up to its await (cant-attend.js:20, part_000:18):
\* fetch issues the POST.
submitHandler(f) ==
  [f EXCEPT !.submitDisabled = IF f.script = "part_000" /\ f.hasSubmitButton
                               THEN TRUE ELSE @,
            !.inFlight = @ + 1,
            !.posts = @ + 1,
            !.lastEvent = "submit"]

\* The submit listener after the await, when fetch fulfilled
\* (cant-attend.js:25, part_000:28).
submitHandlerFulfilled(f) ==
  IF f.script = "part_000"
  THEN [f EXCEPT !.introCard = FALSE, !.thankYou = TRUE,
                 !.inFlight = @ - 1, !.lastEvent = "fulfilled"]
  ELSE [f EXCEPT !.form = FALSE, !.message = "thanks",
                 !.hideTimers = @ + 1,
                 !.inFlight = @ - 1, !.lastEvent = "fulfilled"]

\* A catch block that sends the form again.
submitHandlerRejected_retries(f) ==
  [f EXCEPT !.posts = @ + 1, !.lastEvent = "rejected"]

\* The catch block of the submit listener, when fetch rejected
\* (cant-attend.js:29, part_000:30): the container's content is replaced by
\* the failure message, and the form with it.
submitHandlerRejected(f) ==
  IF f.script = "part_000"
  THEN [f EXCEPT !.form = FALSE, !.message = "failed",
                 !.submitDisabled = IF f.hasSubmitButton THEN FALSE ELSE @,
                 !.inFlight = @ - 1, !.lastEvent = "rejected"]
  ELSE [f EXCEPT !.form = FALSE, !.message = "failed",
                 !.hideTimers = @ + 1,
                 !.inFlight = @ - 1, !.lastEvent = "rejected"]

\* ------------------------------------------------------ promise reactions
\* The rejection reaction of one play promise.
runJob(s, j) ==
  IF j.k = "v"
  THEN IF j.id = 0 THEN finalizeVideoPrimer(s, FALSE)
       ELSE resolvedOnError([s EXCEPT !.lastRejections = @ + 1], j.id)
  ELSE LET s1 == [s EXCEPT !.lastAudioRejections = @ \cup {j.k}]
       IN IF j.k = "aEnsure" THEN ensureCatch(s1, j.why)
          ELSE finalizeAudioPrimer(s1, FALSE)

\* The microtask checkpoint at the end of a callback: every queued reaction
\* runs, with the reactions those queue.
RECURSIVE checkpoint(_)
checkpoint(s) ==
  IF s.mq = <<>> THEN s
  ELSE checkpoint(runJob([s EXCEPT !.mq = Tail(@)], Head(s.mq)))

\* One event dispatched to the listeners q in order: each callback Op runs
\* to its end and is followed by a microtask checkpoint.
RECURSIVE forEach(_, _, _)
forEach(Op(_, _), s, q) ==
  IF q = <<>> THEN s
  ELSE forEach(Op, checkpoint(Op(s, Head(q))), Tail(q))

\* What the environment decides when a task runs: whether the autoplay
\* policy lets the video (v) and the audio (a) play, and whether a seek to 0
\* leaves the video with data to show (rdy).
Policy == [v : BOOLEAN, a : BOOLEAN, rdy : BOOLEAN]

\* The policies whose answers lie in V, A and R; a task that does not ask a
\* question gets one answer for it.
Answers(V, A, R) == {p \in Policy : p.v \in V /\ p.a \in A /\ p.rdy \in R}

\* Is the wrapper of video entry e in the document?
videoInDocument(s, e) ==
  \/ \E i \in 1..Len(s.cardShell) : s.cardShell[i] = Frame("video", e)
  \/ \E i \in 1..Len(s.mobileStage) : s.mobileStage[i] = Frame("video", e)

\* Can the user reach the buttons of the view v?  On the mobile stage a
\* frame stops being shown (is-visible removed) once its successor is
\* requested.
viewInteractive(s, v) ==
  \/ \E i \in 1..Len(s.cardShell) : s.cardShell[i].v = v
  \/ /\ \E i \in 1..Len(s.mobileStage) : s.mobileStage[i].v = v
     /\ s.swapQueue = <<>>

\* ---------------------------------------------------------------- actions
\* The border cells shown when the script has run (main.js:3229): all of them
\* when motion is reduced.
initialVisibleCells ==
  IF prefersReducedMotion THEN 0..(numCells - 1) ELSE {}

Init ==
  /\ numCells \in 0..MaxCells
  /\ hasMobileStage \in BOOLEAN
  /\ photoSrc \in IF hasMobileStage THEN SUBSET (0..(numCells - 1))
                  ELSE {0..(numCells - 1)}
  /\ prefersReducedMotion \in BOOLEAN
  /\ hasCountdownNumber \in BOOLEAN
  /\ isMobileExperienceActive \in BOOLEAN
  /\ phase \in {"load", "part_004", "countdown_demo"}
  /\ part004 \in {part004Init, part004SecondInit}
  /\ demo \in {demoInit(total) : total \in 0..MaxCells}
  /\ mediaSync \in {mediaSyncInit(pair) : pair \in {"celebration", "sneakPeek"}}
  /\ calendar \in {calendarInit(d) : d \in Descriptions}
  /\ attendance \in {attendanceInit(script, button) :
                       script \in {"cant-attend", "part_000"}, button \in BOOLEAN}
  /\ hasStarted = FALSE
  /\ currentValue = countdownStart
  /\ revealedCells = 0
  /\ visibleCells = initialVisibleCells
  /\ countdownIntervalId = FALSE
  /\ startListeners = {}
  /\ startOverlay = FALSE
  /\ startButton = FALSE
  /\ overlayTimer = FALSE
  /\ cardShell = IF hasCountdownNumber THEN <<Frame("countdown", 0)>> ELSE <<>>
  /\ mobileStage = <<>>
  /\ swapQueue = <<>>
  /\ photoTimer = -1
  /\ finalPhotoTimer = FALSE
  /\ photoDelay = 0
  /\ flow = "none"
  /\ completionTimer = FALSE
  /\ endedTimers = {}
  /\ hideTimers = FALSE
  /\ fxTimer = FALSE
  /\ nextEntry = 1
  /\ entryFx = {}
  /\ sharedCelebrationVideoElement = FALSE
  /\ vParent = 0
  /\ vPaused = TRUE
  /\ vEnded = FALSE
  /\ vReady = FALSE
  /\ vPlaying = FALSE
  /\ vMuted = TRUE
  /\ vEvents = {}
  /\ vPending = {}
  /\ vError = FALSE
  /\ endedListeners = {}
  /\ errorListeners = {}
  /\ sharedCelebrationVideoEndedHandler = 0
  /\ sharedCelebrationVideoErrorHandler = 0
  /\ syncListeners = {}
  /\ cleanupCelebrationMediaSync = 0
  /\ canplayListeners = {}
  /\ playingListeners = {}
  /\ hasPrimedMobileVideoPlayback = FALSE
  /\ aPaused = TRUE
  /\ aMuted = FALSE
  /\ aEnsurePending = FALSE
  /\ aPrimerPending = FALSE
  /\ hasPrimedCelebrationAudioPlayback = FALSE
  /\ isCelebrationAudioPlaybackBlocked = FALSE
  /\ activeCelebrationVideoElement = FALSE
  /\ currentCelebrationVideoWrapper = 0
  /\ celebrationAudioPermissionContainer = 0
  /\ permHidden = TRUE
  /\ permAriaHidden = TRUE
  /\ mq = <<>>
  /\ tickRenders = 0
  /\ armCount = 0
  /\ completionCalls = 0
  /\ videoElementsCreated = 0
  /\ lastEvent = "none"
  /\ lastEndedCallbacks = 0
  /\ lastRejections = 0
  /\ lastAudio = "none"
  /\ lastAudioRejections = {}
  /\ retryInFlight = FALSE
  /\ outsideClickListeners = 0
  /\ fxCauses = {}
  /\ detailsCause = NoCause
  /\ photoLog = <<>>
  /\ hasUserAdjustedVolume = FALSE
  /\ detailsAgain = {}
  /\ detailsFor = {}
  /\ primerLate = {}
  /\ realStarted = {}

\* The wiring at the end of the script (main.js:4591): listeners on the
\* controls that exist, and an immediate start when one is missing.
PageLoad(A) ==
  /\ phase = "load"
  /\ phase' = "ready"
  /\ \E overlay \in BOOLEAN, button \in BOOLEAN, p \in Answers(BOOLEAN, A, {TRUE}) :
       LET s1 == [Cur EXCEPT
                    !.startOverlay = overlay, !.startButton = button,
                    !.startListeners =
                       (IF button THEN {"buttonClick"} ELSE {})
                       \cup (IF overlay THEN {"overlayClick", "overlayKey"} ELSE {})]
       IN IF ~overlay \/ ~button
          THEN Commit(checkpoint(startExperience(s1, p)), "autoStart")
          ELSE Commit(s1, "wired")

\* A click on the enabled start button or on the overlay, or Enter/Space on
\* the overlay (main.js:4580): the listener runs if it is still registered.
StartTrigger(A) ==
  /\ phase = "ready"
  /\ UNCHANGED phase
  /\ \E src \in {"buttonClick", "overlayClick", "overlayKey"},
        p \in Answers(BOOLEAN, A, {TRUE}) :
       /\ IF src = "buttonClick" THEN startButton ELSE startOverlay
       /\ IF src \in startListeners
          THEN Commit(checkpoint(startExperience(Cur, p)), "start")
          ELSE Commit(Cur, "startIgnored")

\* The START_OVERLAY_CLEAR_DELAY_MS timer of startExperience fires: the
\* overlay is removed from the document.
OverlayClear ==
  /\ overlayTimer
  /\ UNCHANGED phase
  /\ Commit([Cur EXCEPT !.overlayTimer = FALSE, !.startOverlay = FALSE],
            "overlayClear")

\* The mobile breakpoint media query changes (main.js:3245), before or after
\* the start.
BreakpointChange ==
  /\ phase = "ready"
  /\ UNCHANGED phase
  /\ \E matches \in BOOLEAN :
       /\ matches # isMobileExperienceActive
       /\ Commit(updateMobileExperiencePreference(Cur, matches), "breakpoint")

\* The countdown interval fires; its period is longer than the overlay's
\* clear delay.
CountdownTick ==
  /\ countdownIntervalId
  /\ ~overlayTimer
  /\ UNCHANGED phase
  /\ Commit(handleCountdownTick(Cur), "tick")

\* The COUNTDOWN_COMPLETE_VIDEO_DELAY_MS timer of handleCountdownTick fires.
CountdownComplete ==
  /\ completionTimer
  /\ UNCHANGED phase
  /\ \E p \in Answers(BOOLEAN, {TRUE}, BOOLEAN) :
       Commit(checkpoint(showCelebrationVideo(
                [Cur EXCEPT !.completionTimer = FALSE, !.completionCalls = @ + 1],
                TRUE, p)), "complete")

\* The VIDEO_COMPLETE_DELAY_MS timer set by the onEnded handler of entry e
\* fires (main.js:4184, 4345).
EndedTimer ==
  /\ UNCHANGED phase
  /\ \E e \in endedTimers :
       Commit(checkpoint(resolvedOnEnded([Cur EXCEPT !.endedTimers = @ \ {e}], e)),
              "endedTimer")

\* A 200 ms timer of hideCelebrationAudioPermissionUi fires.
HideTimer ==
  /\ hideTimers
  /\ UNCHANGED phase
  /\ Commit(hideTimerCallback([Cur EXCEPT !.hideTimers = FALSE]), "hideTimer")

\* The CELEBRATION_TRANSITION_DELAY_MS timer of revealSaveTheDateDetails
\* fires: boom and confetti.
FxTimer ==
  /\ fxTimer
  /\ UNCHANGED phase
  /\ Commit([Cur EXCEPT !.fxTimer = FALSE], "effects")

\* The MOBILE_FRAME_TRANSITION_MS timer of swapMobileFrame fires for the
\* oldest pending swap.
PlaceFrame ==
  /\ swapQueue # <<>>
  /\ UNCHANGED phase
  /\ Commit(checkpoint(placeNewFrame([Cur EXCEPT !.swapQueue = Tail(@)],
                                     Head(swapQueue))), "placeFrame")

\* The display timer of a mobile photo fires; it is longer than the frame
\* transition, so the swap it follows has been placed.
PhotoTimer ==
  /\ photoTimer >= 0
  /\ swapQueue = <<>>
  /\ UNCHANGED phase
  /\ \E p \in Answers(BOOLEAN, {TRUE}, BOOLEAN) :
       Commit(checkpoint(showMobilePhotoAtIndex(
                [Cur EXCEPT !.photoTimer = -1], photoTimer, 0, p)), "photoTimer")

\* The display timer of the final mobile photo fires (main.js:4447).
FinalPhotoTimer ==
  /\ finalPhotoTimer
  /\ swapQueue = <<>>
  /\ UNCHANGED phase
  /\ \E p \in Answers(BOOLEAN, {TRUE}, BOOLEAN) :
       Commit(checkpoint(showMobileVideo(
                [Cur EXCEPT !.finalPhotoTimer = FALSE], p)), "finalPhotoTimer")

\* The video has data to play: `canplay` is dispatched to the once-listeners
\* of safelyPlayVideo.
CanPlay ==
  /\ sharedCelebrationVideoElement
  /\ ~vReady /\ ~vError
  /\ UNCHANGED phase
  /\ \E p \in Answers(BOOLEAN, {TRUE}, {TRUE}) :
       Commit(forEach(LAMBDA t, e : attemptVideoPlayback(t, e, p),
                      [Cur EXCEPT !.vReady = TRUE, !.canplayListeners = {}],
                      SetToSeq(canplayListeners)), "canplay")

\* The queued `play` event is dispatched to handleVideoPlay of every
\* registered media sync.
VideoPlayEvent(A) ==
  /\ "play" \in vEvents
  /\ UNCHANGED phase
  /\ \E p \in Answers({TRUE}, A, {TRUE}) :
       Commit(forEach(LAMBDA t, e : handleVideoPlay(t, p),
                      [Cur EXCEPT !.vEvents = @ \ {"play"}],
                      SetToSeq(syncListeners)), "videoPlay")

\* The queued `pause` event is dispatched to handleVideoPause (main.js:2569).
VideoPauseEvent ==
  /\ "pause" \in vEvents
  /\ UNCHANGED phase
  /\ Commit(forEach(LAMBDA t, e : audioPause(t),
                    [Cur EXCEPT !.vEvents = @ \ {"pause"}],
                    SetToSeq(syncListeners)), "videoPause")

\* Playback starts: `playing` is dispatched to the once-listeners of
\* ensureAudioPlaybackWhenVideoActive and the pending play promises are
\* fulfilled, oldest first.
VideoPlaying(A) ==
  /\ sharedCelebrationVideoElement
  /\ ~vPaused /\ vReady /\ ~vError /\ "play" \notin vEvents
  /\ ~vPlaying \/ vPending # {}
  /\ UNCHANGED phase
  /\ \E p \in Answers({TRUE}, A, {TRUE}) :
       LET s0 == [Cur EXCEPT !.vPlaying = TRUE, !.playingListeners = {},
                             !.vPending = {}]
           s1 == forEach(LAMBDA t, k :
                           ensureCelebrationAudioPlayback(t, k = "retry", FALSE, p),
                         s0, IF vPlaying THEN <<>>
                             ELSE [i \in 1..Cardinality(playingListeners) |->
                                     IF "plain" \in playingListeners /\ i = 1
                                     THEN "plain" ELSE "retry"])
           s2 == forEach(LAMBDA t, e :
                           IF e = 0 THEN finalizeVideoPrimer(t, TRUE)
                           ELSE ensureAudioPlaybackWhenVideoActive(t, "plain", p),
                         s1, SetToSeq(vPending))
       IN Commit(s2, "videoPlaying")

\* Playback reaches the end: the element is paused, `pause` goes to
\* handleVideoPause and `ended` to handleVideoEnded of every registered media
\* sync and to the once-listeners of attachCelebrationVideoHandlers, each of
\* which sets the VIDEO_COMPLETE_DELAY_MS timer of its entry.
VideoEnded ==
  /\ vPlaying /\ ~vPaused /\ vPending = {} /\ vEvents = {}
  /\ UNCHANGED phase
  /\ LET s0 == [Cur EXCEPT !.vPaused = TRUE, !.vPlaying = FALSE, !.vEnded = TRUE]
         s1 == forEach(LAMBDA t, e : audioPause(t), s0, SetToSeq(syncListeners))
         s2 == forEach(LAMBDA t, e : audioPause(t), s1, SetToSeq(syncListeners))
         s3 == forEach(LAMBDA t, e : [t EXCEPT !.endedTimers = @ \cup {e}],
                       [s2 EXCEPT !.endedListeners = {},
                                  !.lastEndedCallbacks = Cardinality(endedListeners)],
                       SetToSeq(endedListeners))
     IN Commit(s3, "videoEnded")

\* The video fails to load or decode: `error` goes to the once-listeners of
\* attachCelebrationVideoHandlers, then the pending play promises are rejected.
\* The source never reloads the element, so the error stays; whether the
\* element keeps its readyState depends on the kind of failure.
VideoError ==
  /\ sharedCelebrationVideoElement
  /\ ~vError
  /\ UNCHANGED phase
  /\ \E keepsData \in BOOLEAN :
     LET s0 == [Cur EXCEPT !.vPlaying = FALSE, !.vReady = @ /\ keepsData,
                           !.vError = TRUE, !.errorListeners = {}]
         s1 == forEach(LAMBDA t, e : resolvedOnError(t, e), s0,
                       SetToSeq(errorListeners))
         s2 == [s1 EXCEPT !.vPending = {},
                          !.mq = @ \o [i \in 1..Cardinality(s1.vPending) |->
                                   Job("v", SetToSeq(s1.vPending)[i], "NotSupported")]]
     IN Commit(checkpoint(s2), "videoError")

\* The user starts the video from its native controls.
UserPlay ==
  /\ viewInteractive(Cur, "video")
  /\ vPaused
  /\ UNCHANGED phase
  /\ Commit(videoPlay(Cur, -1, TRUE), "userPlay")

\* The user pauses the video from its native controls.
UserPause ==
  /\ viewInteractive(Cur, "video")
  /\ ~vPaused
  /\ UNCHANGED phase
  /\ Commit(checkpoint(videoPause(Cur)), "userPause")

\* The user mutes or unmutes the video from its native controls: the
\* `volumechange` event that follows is trusted and goes to
\* handleVideoVolumeChange of every registered media sync.
UserVolumeChange ==
  /\ viewInteractive(Cur, "video")
  /\ UNCHANGED phase
  /\ Commit(forEach(LAMBDA t, e : handleVideoVolumeChange(t, TRUE),
                    [Cur EXCEPT !.vMuted = ~vMuted],
                    SetToSeq(syncListeners)), "volumeChange")

\* The celebration audio starts to play: its pending play promises are
\* fulfilled, the primer's first.
AudioPlaying ==
  /\ ~aPaused
  /\ aEnsurePending \/ aPrimerPending
  /\ UNCHANGED phase
  /\ LET s0 == [Cur EXCEPT !.aEnsurePending = FALSE, !.aPrimerPending = FALSE,
                           !.retryInFlight = FALSE]
         s1 == IF aPrimerPending THEN finalizeAudioPrimer(s0, TRUE) ELSE s0
         s2 == IF aEnsurePending THEN ensureThen(s1) ELSE s1
     IN Commit(s2, IF retryInFlight THEN "audioRetryPlaying" ELSE "audioPlaying")

\* The celebration audio cannot be loaded or decoded: its pending play
\* promises are rejected with NotSupportedError.
AudioFails ==
  /\ aEnsurePending \/ aPrimerPending
  /\ UNCHANGED phase
  /\ Commit(checkpoint([Cur EXCEPT
       !.aEnsurePending = FALSE, !.aPrimerPending = FALSE,
       !.mq = @ \o (IF aPrimerPending
                    THEN <<Job("aPrimer", 0, "NotSupported")>> ELSE <<>>)
                \o (IF aEnsurePending
                    THEN <<Job("aEnsure", 0, "NotSupported")>> ELSE <<>>)]),
            "audioFailed")

\* The replay button of the details view (main.js:4043, 4297).
ReplayClick ==
  /\ viewInteractive(Cur, "details")
  /\ nextEntry <= MaxEntries
  /\ UNCHANGED phase
  /\ \E p \in Answers(BOOLEAN, {TRUE}, BOOLEAN) :
       Commit(checkpoint(IF flow = "mobile" THEN showMobileVideo(Cur, p)
                         ELSE showCelebrationVideo(Cur, FALSE, p)), "replay")

\* The sneak peek button of the details view (main.js:4046, 4300).
SneakPeekClick ==
  /\ viewInteractive(Cur, "details")
  /\ outsideClickListeners < MaxDetailsViews
  /\ UNCHANGED phase
  /\ Commit(checkpoint(IF flow = "mobile" THEN showMobileSneakPeek(Cur)
                       ELSE showSneakPeekVideo(Cur)), "sneakPeek")

\* The back button of the sneak peek view (main.js:4232, 4391).
BackClick ==
  /\ viewInteractive(Cur, "sneak")
  /\ UNCHANGED phase
  /\ Commit(checkpoint(IF flow = "mobile" THEN showMobileSaveTheDate(Cur, FALSE)
                       ELSE showSaveTheDateDetails(Cur, FALSE)), "back")

\* The button of the permission UI (main.js:2220).
PermissionClick ==
  /\ ~permHidden
  /\ celebrationAudioPermissionContainer # 0
  /\ videoInDocument(Cur, celebrationAudioPermissionContainer)
  /\ UNCHANGED phase
  /\ \E p \in Answers({TRUE}, BOOLEAN, {TRUE}) :
       Commit(checkpoint(ensureCelebrationAudioPlayback(Cur, FALSE, TRUE, p)),
              "permissionClick")

\* The variables of the page script without the history of the run.
programVars ==
  <<numCells, photoSrc, prefersReducedMotion, hasMobileStage, hasCountdownNumber,
    phase, hasStarted, currentValue, revealedCells, countdownIntervalId,
    visibleCells, isMobileExperienceActive, startListeners, startOverlay, startButton,
    overlayTimer,
    cardShell, mobileStage, swapQueue, photoTimer, finalPhotoTimer, flow,
    photoDelay,
    completionTimer, endedTimers, hideTimers, fxTimer,
    nextEntry, entryFx, sharedCelebrationVideoElement, vParent,
    vPaused, vEnded, vReady, vPlaying, vMuted, vEvents, vPending, vError,
    endedListeners, errorListeners,
    sharedCelebrationVideoEndedHandler, sharedCelebrationVideoErrorHandler,
    syncListeners, cleanupCelebrationMediaSync, canplayListeners, playingListeners,
    hasPrimedMobileVideoPlayback,
    aPaused, aMuted, aEnsurePending, aPrimerPending,
    hasPrimedCelebrationAudioPlayback, isCelebrationAudioPlaybackBlocked,
    activeCelebrationVideoElement, currentCelebrationVideoWrapper,
    celebrationAudioPermissionContainer, permHidden, permAriaHidden,
    mq, hasUserAdjustedVolume,
    outsideClickListeners>>

history ==
  <<tickRenders, armCount, completionCalls, retryInFlight, videoElementsCreated,
    lastEvent, lastEndedCallbacks, lastRejections, lastAudio,
    lastAudioRejections, realStarted,
    primerLate,
    detailsFor,
    detailsAgain,
    photoLog,
    detailsCause,
    fxCauses>>

vars == <<programVars, history, part004, demo, mediaSync, calendar, attendance, grid, gate, story, hit>>

\* The earlier scripts: a click on the start overlay or Enter/Space on it
\* (part_004:328, 612); its listeners are never removed.
Part004Start ==
  /\ phase = "part_004"
  /\ part004' = IF part004.variant = 1 THEN startCountdown(part004)
                 ELSE secondStartCountdown(part004)
  /\ UNCHANGED <<programVars, history, demo, mediaSync, calendar, attendance, grid, gate, story, hit>>

\* The earlier script: the 1000 ms interval fires.
Part004Tick ==
  /\ phase = "part_004"
  /\ part004.intervalArmed
  /\ part004' = IF part004.variant = 1 THEN countdownIntervalCallback(part004)
                 ELSE secondCountdownIntervalCallback(part004)
  /\ UNCHANGED <<programVars, history, demo, mediaSync, calendar, attendance, grid, gate, story, hit>>

\* The earlier script: the 650 ms timer set by the last tick fires.
Part004Finish ==
  /\ phase = "part_004"
  /\ part004.finishTimer
  /\ part004' = finishCountdown(part004)
  /\ UNCHANGED <<programVars, history, demo, mediaSync, calendar, attendance, grid, gate, story, hit>>

\* The grid scripts: a click on the start overlay (part_004:328, 612;
\* part_007:157).
GridStart ==
  /\ ~grid.hasStarted
  /\ grid' = gridStart(grid)
  /\ UNCHANGED <<programVars, history, part004, demo, mediaSync, calendar, attendance, gate, story, hit>>

\* The grid scripts: the 1000 ms interval fires.
GridTick ==
  /\ grid.intervalArmed
  /\ grid' = gridIntervalCallback(grid)
  /\ UNCHANGED <<programVars, history, part004, demo, mediaSync, calendar, attendance, gate, story, hit>>

\* The grid scripts: the settle timer set by the last tick fires.
GridSettle ==
  /\ grid.finishTimer
  /\ grid' = gridSettleCallback(grid)
  /\ UNCHANGED <<programVars, history, part004, demo, mediaSync, calendar, attendance, gate, story, hit>>

\* The promise-gated pages: a click on the start overlay of part_004
\* (part_004:612); the listener is never removed.
GateStart ==
  /\ gate.variant = "part_004"
  /\ gate' = gateStartCountdown(gate)
  /\ gate' # gate
  /\ UNCHANGED <<programVars, history, part004, demo, mediaSync, calendar, attendance, grid, story, hit>>

\* The promise-gated pages: the 1000 ms interval fires.
GateTick ==
  /\ gate.intervalArmed
  /\ gate' = gateIntervalCallback(gate)
  /\ UNCHANGED <<programVars, history, part004, demo, mediaSync, calendar, attendance, grid, story, hit>>

\* The promise-gated pages: the 650 ms timer set by the last tick fires.
GateSettle ==
  /\ gate.settleTimer
  /\ gate' = gateSettleCallback(gate)
  /\ UNCHANGED <<programVars, history, part004, demo, mediaSync, calendar, attendance, grid, story, hit>>

\* The promise-gated pages: the video dispatches `loadeddata` or `canplay`,
\* once each, to the listener if it is still registered.
GateVideoEvent ==
  /\ gate.hasVideo
  /\ \E ev \in {"canplay", "loadeddata"} \ gate.fired :
       gate' = LET g1 == [gate EXCEPT !.fired = @ \cup {ev}]
               IN IF ev \in gate.readyListeners THEN onCanPlay(g1) ELSE g1
  /\ UNCHANGED <<programVars, history, part004, demo, mediaSync, calendar, attendance, grid, story, hit>>

\* The story page: a photo timer fires (400 ms, 2400 ms, 3200 ms).
StoryPhoto ==
  /\ story.photoTimer
  /\ story' = showNextPhoto(story)
  /\ UNCHANGED <<programVars, history, part004, demo, mediaSync, calendar, attendance, grid, gate, hit>>

\* The story page: the 600 ms timer after the last photo fires.
StoryStage ==
  /\ story.stageTimer
  /\ story' = startVideoStage(story)
  /\ UNCHANGED <<programVars, history, part004, demo, mediaSync, calendar, attendance, grid, gate, hit>>

\* The story page: the animation frame of attemptPlay.
StoryAttemptPlay ==
  /\ story.playFrame
  /\ story' = attemptPlay(story)
  /\ UNCHANGED <<programVars, history, part004, demo, mediaSync, calendar, attendance, grid, gate, hit>>

\* The story page: the fallback timer fires.
StoryFallback ==
  /\ story.fallbackTimer
  /\ story' = fallbackCallback(story)
  /\ UNCHANGED <<programVars, history, part004, demo, mediaSync, calendar, attendance, grid, gate, hit>>

\* The story page: an animation frame of revealIntroCard.
StoryRevealFrame ==
  /\ story.revealFrames > 0
  /\ story' = revealFrameCallback(story)
  /\ UNCHANGED <<programVars, history, part004, demo, mediaSync, calendar, attendance, grid, gate, hit>>

\* The story page: playback starts and the pending promises of play() are
\* fulfilled; a paused video does not start.
StoryPlaysFulfilled ==
  /\ story.plays # {}
  /\ ~story.paused
  /\ "error" \notin story.dispatched
  /\ story' = playsFulfilled(story)
  /\ UNCHANGED <<programVars, history, part004, demo, mediaSync, calendar, attendance, grid, gate, hit>>

\* The story page: the pending promises of play() are rejected (playback
\* refused, no supported source, or pause() called while they were pending).
StoryPlaysRejected ==
  /\ story.plays # {}
  /\ story' = playsRejected(story)
  /\ UNCHANGED <<programVars, history, part004, demo, mediaSync, calendar, attendance, grid, gate, hit>>

\* The story page: the video reaches its end while playing, or fails or
\* has its download aborted; each happens at most once.
StoryVideoEvent ==
  /\ story.hasVideo
  /\ \E ev \in {"ended", "error", "abort"} \ story.dispatched :
       /\ ev = "ended" => story.playing
       /\ story' = videoDispatches(story, ev)
  /\ UNCHANGED <<programVars, history, part004, demo, mediaSync, calendar, attendance, grid, gate, hit>>

\* The desktop story page: the tap on the start prompt; the listener
\* removes itself.
StoryStart ==
  /\ ~story.isMobileStory
  /\ story.hasVideo
  /\ ~story.hasStarted
  /\ story' = storyStart(story)
  /\ UNCHANGED <<programVars, history, part004, demo, mediaSync, calendar, attendance, grid, gate, hit>>

\* The desktop story page: the 1000 ms interval fires.
StoryTick ==
  /\ story.intervalArmed
  /\ story' = storyIntervalCallback(story)
  /\ UNCHANGED <<programVars, history, part004, demo, mediaSync, calendar, attendance, grid, gate, hit>>

\* The desktop story page: the 500 ms timer after the last number fires.
StorySettle ==
  /\ story.settleTimer
  /\ story' = storySettleCallback(story)
  /\ UNCHANGED <<programVars, history, part004, demo, mediaSync, calendar, attendance, grid, gate, hit>>

\* The durations: the script reaches the next frame.
HitNext ==
  /\ hit.index < hit.total
  /\ hit' = hitNext(hit)
  /\ UNCHANGED <<programVars, history, part004, demo, mediaSync, calendar, attendance, grid, gate, story>>

\* The demo page: the 1000 ms interval fires.
DemoTick ==
  /\ phase = "countdown_demo"
  /\ demo.timer
  /\ demo' = demoTimerCallback(demo)
  /\ UNCHANGED <<programVars, history, part004, mediaSync, calendar, attendance, grid, gate, story, hit>>

\* The demo page: the 650 ms timer set by the tick that shows 1 fires.
DemoSettle ==
  /\ phase = "countdown_demo"
  /\ demo.settleTimer
  /\ demo' = resolveCountdown([demo EXCEPT !.settleTimer = FALSE])
  /\ UNCHANGED <<programVars, history, part004, mediaSync, calendar, attendance, grid, gate, story, hit>>

\* Playback goes on: the video moves one step ahead and the audio none, one
\* or two, as its own clock has it.
MediaPlayback ==
  /\ mediaSync.videoTime + TimeStepMs \in Times
  /\ \E a \in Times :
       /\ a - mediaSync.audioTime \in {0, TimeStepMs, 2 * TimeStepMs}
       /\ mediaSync' = [mediaSync EXCEPT !.videoTime = @ + TimeStepMs,
                                         !.audioTime = a,
                                         !.lastEvent = "none", !.resets = 0,
                                         !.driftBefore = 0]
  /\ UNCHANGED <<programVars, history, part004, demo, calendar, attendance, grid, gate, story, hit>>

\* The video's `play` event.
MediaPlay ==
  /\ mediaSync' = dispatchMediaEvent(mediaSync, "play")
  /\ UNCHANGED <<programVars, history, part004, demo, calendar, attendance, grid, gate, story, hit>>

\* The user seeks the video to the position t: `seeking` is dispatched with
\* the new position.
MediaSeeking ==
  /\ \E t \in Times :
       mediaSync' = dispatchMediaEvent([mediaSync EXCEPT !.videoTime = t], "seeking")
  /\ UNCHANGED <<programVars, history, part004, demo, calendar, attendance, grid, gate, story, hit>>

\* The seek is done: `seeked`.
MediaSeeked ==
  /\ mediaSync.lastEvent = "seeking"
  /\ mediaSync' = dispatchMediaEvent(mediaSync, "seeked")
  /\ UNCHANGED <<programVars, history, part004, demo, calendar, attendance, grid, gate, story, hit>>

\* The video's `timeupdate` event.
MediaTimeUpdate ==
  /\ mediaSync' = dispatchMediaEvent(mediaSync, "timeupdate")
  /\ UNCHANGED <<programVars, history, part004, demo, calendar, attendance, grid, gate, story, hit>>

\* A click on the calendar file link (main.js:3716): a fresh file is
\* generated at the clock reading iso.
CalendarDownload ==
  /\ calendar.urlsCreated < MaxDownloads
  /\ \E iso \in IsoDates, link \in CalendarLinks :
       calendar' = calendarLinkClick(calendar, link, iso)
  /\ UNCHANGED <<programVars, history, part004, demo, mediaSync, attendance, grid, gate, story, hit>>

\* The page is hidden or left (main.js:3660): the object URL is revoked.
CalendarCleanup ==
  /\ calendar.cachedCalendarBlobUrl # 0
  /\ calendar' = cleanupCalendarBlobUrl(calendar)
  /\ UNCHANGED <<programVars, history, part004, demo, mediaSync, attendance, grid, gate, story, hit>>

\* A click on the trigger (cant-attend.js:8, part_000:10).
AttendanceShow ==
  /\ attendance.display = "none"
  /\ attendance' = [attendance EXCEPT !.display = "block", !.lastEvent = "show"]
  /\ UNCHANGED <<programVars, history, part004, demo, mediaSync, calendar, grid, gate, story, hit>>

\* A click on the close button of cant-attend.js (cant-attend.js:14).
AttendanceClose ==
  /\ attendance.script = "cant-attend"
  /\ attendance.display = "block"
  /\ attendance' = [attendance EXCEPT !.display = "none", !.lastEvent = "close"]
  /\ UNCHANGED <<programVars, history, part004, demo, mediaSync, calendar, grid, gate, story, hit>>

\* The user submits the form: it is shown, still in the document, and its
\* submit button, if it has one, is not disabled.
AttendanceSubmit ==
  /\ attendance.display = "block"
  /\ attendance.form
  /\ ~attendance.submitDisabled
  /\ attendance.posts < MaxPosts
  /\ attendance' = submitHandler(attendance)
  /\ UNCHANGED <<programVars, history, part004, demo, mediaSync, calendar, grid, gate, story, hit>>

\* A POST in flight gets its (opaque) response.
AttendanceFetchFulfilled ==
  /\ attendance.inFlight > 0
  /\ attendance' = submitHandlerFulfilled(attendance)
  /\ UNCHANGED <<programVars, history, part004, demo, mediaSync, calendar, grid, gate, story, hit>>

\* A POST in flight fails with a network error.
AttendanceFetchRejected ==
  /\ attendance.inFlight > 0
  /\ attendance' = submitHandlerRejected(attendance)
  /\ UNCHANGED <<programVars, history, part004, demo, mediaSync, calendar, grid, gate, story, hit>>

\* A 2000 ms timer of cant-attend.js fires (cant-attend.js:26, 31).
AttendanceHideTimer ==
  /\ attendance.hideTimers > 0
  /\ attendance' = [attendance EXCEPT !.display = "none", !.hideTimers = @ - 1,
                                      !.lastEvent = "hideTimer"]
  /\ UNCHANGED <<programVars, history, part004, demo, mediaSync, calendar, grid, gate, story, hit>>

\* The page configurations a specification starts from.
Configs(cells, stage, photos, motion, number, mobile) ==
  /\ numCells \in cells
  /\ hasMobileStage \in stage
  /\ photoSrc \in photos
  /\ prefersReducedMotion \in motion
  /\ hasCountdownNumber \in number
  /\ isMobileExperienceActive \in mobile

\* -------------------------------------------------------- specifications
\* The start and the countdown, for every page configuration.  The media
\* events are left out: no handler of theirs writes a countdown variable.
InitCountdown ==
  /\ hit = hitInit("demo", 0)
  /\ story = storyInit(FALSE, FALSE)
  /\ gate = gateInit("demo", FALSE, FALSE)
  /\ grid = gridInit("schedule", 0)
  /\ attendance = attendanceInit("cant-attend", TRUE)
  /\ calendar = calendarInit(CALENDAR_EVENT.description)
  /\ Init
  /\ phase # "load" => Configs({0}, {FALSE}, {{}}, {FALSE}, {FALSE}, {FALSE})
  /\ phase # "countdown_demo" => demo = demoInit(0)
  /\ phase # "part_004" => part004 = part004Init
  /\ mediaSync = mediaSyncInit("celebration")

NextCountdown ==
  \/ PageLoad(BOOLEAN)
  \/ StartTrigger(BOOLEAN)
  \/ OverlayClear
  \/ BreakpointChange
  \/ CountdownTick
  \/ CountdownComplete
  \/ Part004Start
  \/ Part004Tick
  \/ Part004Finish
  \/ DemoTick
  \/ DemoSettle

SpecCountdown == InitCountdown /\ [][NextCountdown]_vars

\* Timers that are set fire: the interval and the timeouts of the page.  The
\* last conjunct is the weak fairness of CountdownComplete with its enabling
\* condition, completionTimer, written out.
SpecCountdownFair ==
  /\ SpecCountdown
  /\ WF_vars(OverlayClear)
  /\ WF_vars(CountdownTick)
  /\ []<>(~completionTimer) \/ []<><<CountdownComplete>>_vars

\* The countdowns of the earlier scripts and of the demo page with their
\* timers firing as well.
SpecVariantsFair ==
  /\ SpecCountdownFair
  /\ WF_vars(Part004Tick) /\ WF_vars(Part004Finish)
  /\ WF_vars(DemoTick) /\ WF_vars(DemoSettle)

\* The desktop flow with every event of the shared video, the shared audio
\* and the permission UI.
InitDesktop ==
  /\ hit = hitInit("demo", 0)
  /\ story = storyInit(FALSE, FALSE)
  /\ gate = gateInit("demo", FALSE, FALSE)
  /\ grid = gridInit("schedule", 0)
  /\ attendance = attendanceInit("cant-attend", TRUE)
  /\ calendar = calendarInit(CALENDAR_EVENT.description)
  /\ Init
  /\ phase = "load"
  /\ demo = demoInit(0)
  /\ part004 = part004Init
  /\ mediaSync = mediaSyncInit("celebration")
  /\ Configs({1}, {FALSE}, {{0}}, BOOLEAN, BOOLEAN, {FALSE})

NextDesktop ==
  \/ PageLoad(BOOLEAN)
  \/ StartTrigger(BOOLEAN)
  \/ OverlayClear
  \/ CountdownTick
  \/ CountdownComplete
  \/ EndedTimer
  \/ HideTimer
  \/ FxTimer
  \/ CanPlay
  \/ VideoPlayEvent(BOOLEAN)
  \/ VideoPauseEvent
  \/ VideoPlaying(BOOLEAN)
  \/ VideoEnded
  \/ VideoError
  \/ UserPlay
  \/ UserPause
  \/ AudioPlaying
  \/ AudioFails
  \/ ReplayClick
  \/ SneakPeekClick
  \/ BackClick
  \/ PermissionClick

SpecDesktop == InitDesktop /\ [][NextDesktop]_vars

\* The views of the desktop and the mobile flow.  The audio is always allowed
\* to play and never starts: no handler reads the audio element or the
\* permission UI to decide what a view container shows.
InitViews ==
  /\ hit = hitInit("demo", 0)
  /\ story = storyInit(FALSE, FALSE)
  /\ gate = gateInit("demo", FALSE, FALSE)
  /\ grid = gridInit("schedule", 0)
  /\ attendance = attendanceInit("cant-attend", TRUE)
  /\ calendar = calendarInit(CALENDAR_EVENT.description)
  /\ Init
  /\ phase = "load"
  /\ demo = demoInit(0)
  /\ part004 = part004Init
  /\ mediaSync = mediaSyncInit("celebration")
  /\ \/ Configs({1}, {FALSE}, {{0}}, {FALSE}, BOOLEAN, BOOLEAN)
     \/ Configs({1}, {TRUE}, SUBSET {0}, BOOLEAN, {TRUE}, {TRUE})

NextViews ==
  \/ PageLoad({TRUE})
  \/ StartTrigger({TRUE})
  \/ OverlayClear
  \/ CountdownTick
  \/ CountdownComplete
  \/ EndedTimer
  \/ PlaceFrame
  \/ PhotoTimer
  \/ FinalPhotoTimer
  \/ CanPlay
  \/ VideoPlayEvent({TRUE})
  \/ VideoPauseEvent
  \/ VideoPlaying({TRUE})
  \/ VideoEnded
  \/ VideoError
  \/ UserPlay
  \/ UserPause
  \/ ReplayClick
  \/ SneakPeekClick
  \/ BackClick

SpecViews == InitViews /\ [][NextViews]_vars

\* One run of the desktop flow from the start to the details view: the page
\* has its countdown number, the timers and the media events of the run
\* happen, and the user does nothing after the start.
InitEndToEnd ==
  /\ hit = hitInit("demo", 0)
  /\ story = storyInit(FALSE, FALSE)
  /\ gate = gateInit("demo", FALSE, FALSE)
  /\ grid = gridInit("schedule", 0)
  /\ attendance = attendanceInit("cant-attend", TRUE)
  /\ calendar = calendarInit(CALENDAR_EVENT.description)
  /\ Init
  /\ phase = "load"
  /\ demo = demoInit(0)
  /\ part004 = part004Init
  /\ mediaSync = mediaSyncInit("celebration")
  /\ ~hasMobileStage /\ hasCountdownNumber /\ ~isMobileExperienceActive

NextEndToEnd ==
  \/ PageLoad(BOOLEAN)
  \/ StartTrigger(BOOLEAN)
  \/ OverlayClear
  \/ CountdownTick
  \/ CountdownComplete
  \/ EndedTimer
  \/ HideTimer
  \/ FxTimer
  \/ CanPlay
  \/ VideoPlayEvent(BOOLEAN)
  \/ VideoPlaying(BOOLEAN)
  \/ VideoEnded
  \/ AudioPlaying
  \/ AudioFails

SpecEndToEnd == InitEndToEnd /\ [][NextEndToEnd]_vars

\* Time advances and the video plays to its end: a timer that is set fires,
\* a video that was asked to play gets its data, starts and reaches its end.
\* Each line after the first two is the weak fairness of one action with its
\* enabling condition written out.
SpecEndToEndFair ==
  /\ SpecEndToEnd
  /\ WF_vars(OverlayClear)
  /\ WF_vars(CountdownTick)
  /\ []<>(~completionTimer) \/ []<><<CountdownComplete>>_vars
  /\ []<>(endedTimers = {}) \/ []<><<EndedTimer>>_vars
  /\ []<>(~(sharedCelebrationVideoElement /\ ~vReady /\ ~vError))
       \/ []<><<CanPlay>>_vars
  /\ []<>("play" \notin vEvents) \/ []<><<VideoPlayEvent(BOOLEAN)>>_vars
  /\ []<>(~(/\ sharedCelebrationVideoElement
            /\ ~vPaused /\ vReady /\ ~vError /\ "play" \notin vEvents
            /\ ~vPlaying \/ vPending # {}))
       \/ []<><<VideoPlaying(BOOLEAN)>>_vars
  /\ []<>(~(vPlaying /\ ~vPaused /\ vPending = {} /\ vEvents = {}))
       \/ []<><<VideoEnded>>_vars

\* The playback positions of a video and its audio under the media events of
\* the video, for the celebration pair and for the sneak peek pair.
InitSync ==
  /\ hit = hitInit("demo", 0)
  /\ story = storyInit(FALSE, FALSE)
  /\ gate = gateInit("demo", FALSE, FALSE)
  /\ grid = gridInit("schedule", 0)
  /\ attendance = attendanceInit("cant-attend", TRUE)
  /\ calendar = calendarInit(CALENDAR_EVENT.description)
  /\ Init
  /\ phase = "load"
  /\ demo = demoInit(0)
  /\ part004 = part004Init
  /\ Configs({0}, {FALSE}, {{}}, {FALSE}, {FALSE}, {FALSE})

NextSync ==
  \/ MediaPlayback
  \/ MediaPlay
  \/ MediaSeeking
  \/ MediaSeeked
  \/ MediaTimeUpdate

SpecSync == InitSync /\ [][NextSync]_vars

\* The calendar export, for the event's description and for every short
\* description over the characters that need escaping.
InitCalendar ==
  /\ hit = hitInit("demo", 0)
  /\ story = storyInit(FALSE, FALSE)
  /\ gate = gateInit("demo", FALSE, FALSE)
  /\ grid = gridInit("schedule", 0)
  /\ attendance = attendanceInit("cant-attend", TRUE)
  /\ phase = "load"
  /\ demo = demoInit(0)
  /\ part004 = part004Init
  /\ mediaSync = mediaSyncInit("celebration")
  /\ Configs({0}, {FALSE}, {{}}, {FALSE}, {FALSE}, {FALSE})
  /\ Init

NextCalendar ==
  \/ CalendarDownload
  \/ CalendarCleanup

SpecCalendar == InitCalendar /\ [][NextCalendar]_vars

\* The grid scripts, for every frame count of the two grids of part_004
\* and for the page of part_007 with and without its image container.
InitGrid ==
  /\ hit = hitInit("demo", 0)
  /\ story = storyInit(FALSE, FALSE)
  /\ gate = gateInit("demo", FALSE, FALSE)
  /\ grid \in {gridInit(v, total) : v \in {"schedule", "forNumber"},
                                    total \in 0..MaxFrames}
              \cup {gridInit("hits", total) : total \in {0, countdownImageSourcesLength}}
  /\ attendance = attendanceInit("cant-attend", TRUE)
  /\ phase = "load"
  /\ demo = demoInit(0)
  /\ part004 = part004Init
  /\ mediaSync = mediaSyncInit("celebration")
  /\ calendar = calendarInit(CALENDAR_EVENT.description)
  /\ Configs({0}, {FALSE}, {{}}, {FALSE}, {FALSE}, {FALSE})
  /\ Init

NextGrid ==
  \/ GridStart
  \/ GridTick
  \/ GridSettle

SpecGrid == InitGrid /\ [][NextGrid]_vars

\* The promise-gated pages, with and without a video, with a video that is
\* ready when the script runs and with one that is not.
InitGate ==
  /\ hit = hitInit("demo", 0)
  /\ story = storyInit(FALSE, FALSE)
  /\ gate \in {gateInit(v, hasVideo, ready) :
                 v \in {"demo", "part_003", "part_004"},
                 hasVideo \in BOOLEAN, ready \in BOOLEAN}
  /\ grid = gridInit("schedule", 0)
  /\ attendance = attendanceInit("cant-attend", TRUE)
  /\ phase = "load"
  /\ demo = demoInit(0)
  /\ part004 = part004Init
  /\ mediaSync = mediaSyncInit("celebration")
  /\ calendar = calendarInit(CALENDAR_EVENT.description)
  /\ Configs({0}, {FALSE}, {{}}, {FALSE}, {FALSE}, {FALSE})
  /\ Init

NextGate ==
  \/ GateStart
  \/ GateTick
  \/ GateSettle
  \/ GateVideoEvent

SpecGate == InitGate /\ [][NextGate]_vars

\* The story page on a narrow and on a wide screen, with and without its
\* video.
InitStory ==
  /\ hit = hitInit("demo", 0)
  /\ story \in {storyInit(m, v) : m \in BOOLEAN, v \in BOOLEAN}
  /\ gate = gateInit("demo", FALSE, FALSE)
  /\ grid = gridInit("schedule", 0)
  /\ attendance = attendanceInit("cant-attend", TRUE)
  /\ phase = "load"
  /\ demo = demoInit(0)
  /\ part004 = part004Init
  /\ mediaSync = mediaSyncInit("celebration")
  /\ calendar = calendarInit(CALENDAR_EVENT.description)
  /\ Configs({0}, {FALSE}, {{}}, {FALSE}, {FALSE}, {FALSE})
  /\ Init

NextStory ==
  \/ StoryPhoto
  \/ StoryStage
  \/ StoryAttemptPlay
  \/ StoryFallback
  \/ StoryRevealFrame
  \/ StoryPlaysFulfilled
  \/ StoryPlaysRejected
  \/ StoryVideoEvent
  \/ StoryStart
  \/ StoryTick
  \/ StorySettle

SpecStory == InitStory /\ [][NextStory]_vars

\* Timers and animation frames of the page run once they are due.
SpecStoryFair ==
  /\ SpecStory
  /\ WF_vars(StoryFallback)
  /\ WF_vars(StoryRevealFrame)

\* The durations, for every number of images of the demo page and of mobile
\* photos, with and without reduced motion, and for the frames of part_007.
InitHit ==
  /\ hit \in {hitInit(v, total) : v \in {"demo", "mobile"}, total \in 1..MaxFrames}
             \cup {hitInit("hits", countdownImageSourcesLength)}
  /\ story = storyInit(FALSE, FALSE)
  /\ gate = gateInit("demo", FALSE, FALSE)
  /\ grid = gridInit("schedule", 0)
  /\ attendance = attendanceInit("cant-attend", TRUE)
  /\ phase = "load"
  /\ demo = demoInit(0)
  /\ part004 = part004Init
  /\ mediaSync = mediaSyncInit("celebration")
  /\ calendar = calendarInit(CALENDAR_EVENT.description)
  /\ Configs({0}, {FALSE}, {{}}, BOOLEAN, {FALSE}, {FALSE})
  /\ Init

NextHit == HitNext

SpecHit == InitHit /\ [][NextHit]_vars

\* The attendance form of both scripts, with and without a submit button.
InitAttendance ==
  /\ hit = hitInit("demo", 0)
  /\ story = storyInit(FALSE, FALSE)
  /\ gate = gateInit("demo", FALSE, FALSE)
  /\ grid = gridInit("schedule", 0)
  /\ phase = "load"
  /\ demo = demoInit(0)
  /\ part004 = part004Init
  /\ mediaSync = mediaSyncInit("celebration")
  /\ calendar = calendarInit(CALENDAR_EVENT.description)
  /\ Configs({0}, {FALSE}, {{}}, {FALSE}, {FALSE}, {FALSE})
  /\ Init

NextAttendance ==
  \/ AttendanceShow
  \/ AttendanceClose
  \/ AttendanceSubmit
  \/ AttendanceFetchFulfilled
  \/ AttendanceFetchRejected
  \/ AttendanceHideTimer

SpecAttendance == InitAttendance /\ [][NextAttendance]_vars

\* One playback of the celebration video on the desktop page that shows it
\* at the start, with the user at the native controls of the video: play,
\* pause, mute and unmute.
InitVolume ==
  /\ hit = hitInit("demo", 0)
  /\ story = storyInit(FALSE, FALSE)
  /\ gate = gateInit("demo", FALSE, FALSE)
  /\ grid = gridInit("schedule", 0)
  /\ phase = "load"
  /\ demo = demoInit(0)
  /\ part004 = part004Init
  /\ mediaSync = mediaSyncInit("celebration")
  /\ calendar = calendarInit(CALENDAR_EVENT.description)
  /\ attendance = attendanceInit("cant-attend", TRUE)
  /\ Configs({0}, {FALSE}, {{}}, {FALSE}, {FALSE}, {FALSE})
  /\ Init

NextVolume ==
  \/ PageLoad(BOOLEAN)
  \/ StartTrigger(BOOLEAN)
  \/ OverlayClear
  \/ HideTimer
  \/ CanPlay
  \/ VideoPlayEvent(BOOLEAN)
  \/ VideoPauseEvent
  \/ VideoPlaying(BOOLEAN)
  \/ UserPlay
  \/ UserPause
  \/ UserVolumeChange

SpecVolume == InitVolume /\ [][NextVolume]_vars

\* The mobile photo sequence from the start to the video view, for every
\* photo list of at most MaxCells photos.
InitMobile ==
  /\ hit = hitInit("demo", 0)
  /\ story = storyInit(FALSE, FALSE)
  /\ gate = gateInit("demo", FALSE, FALSE)
  /\ grid = gridInit("schedule", 0)
  /\ phase = "load"
  /\ demo = demoInit(0)
  /\ part004 = part004Init
  /\ mediaSync = mediaSyncInit("celebration")
  /\ calendar = calendarInit(CALENDAR_EVENT.description)
  /\ attendance = attendanceInit("cant-attend", TRUE)
  /\ hasMobileStage = TRUE /\ isMobileExperienceActive = TRUE
  /\ Init

NextMobile ==
  \/ PageLoad({TRUE})
  \/ StartTrigger({TRUE})
  \/ OverlayClear
  \/ PlaceFrame
  \/ PhotoTimer
  \/ FinalPhotoTimer
  \/ CanPlay
  \/ VideoPlayEvent({TRUE})
  \/ VideoPlaying({TRUE})

SpecMobile == InitMobile /\ [][NextMobile]_vars

\* The timers of the sequence fire: each line is the weak fairness of one
\* action with its enabling condition written out.
SpecMobileFair ==
  /\ SpecMobile
  /\ []<>(swapQueue = <<>>) \/ []<><<PlaceFrame>>_vars
  /\ []<>(~(photoTimer >= 0 /\ swapQueue = <<>>)) \/ []<><<PhotoTimer>>_vars
  /\ []<>(~(finalPhotoTimer /\ swapQueue = <<>>)) \/ []<><<FinalPhotoTimer>>_vars

\* ------------------------------------------------------------- properties
\* The countdown with start value N never renders more than N ticks, the
\* completion callback showCelebrationVideo is neither scheduled nor called
\* before the N-th tick render, and it is called at most once.
C1_TickRendersSafe ==
  /\ tickRenders <= countdownStart
  /\ completionCalls <= 1
  /\ armCount >= 1 /\ (completionTimer \/ completionCalls = 1)
       => tickRenders = countdownStart /\ ~countdownIntervalId
  /\ ~(completionTimer /\ completionCalls = 1)

\* C1: once the desktop countdown is armed with start value N, exactly N
\* ticks are rendered before the completion callback showCelebrationVideo
\* fires, and the callback fires, exactly once.
C1_NTicksThenOneCompletion ==
  /\ []C1_TickRendersSafe
  /\ (armCount = 1) ~> (completionCalls = 1 /\ tickRenders = countdownStart)

C1_Witness ==
  /\ armCount = 1
  /\ countdownStart >= 2
  /\ tickRenders = countdownStart
  /\ completionCalls = 1
  /\ \E i \in 1..Len(cardShell) : cardShell[i].v = "video"

\* C2: the countdown timer is armed at most once in a page lifetime, and a
\* start trigger (button click, overlay click, Enter or Space on the overlay)
\* that arrives after the countdown has started changes nothing of the
\* program state, in main.js and in the earlier script alike.
C2_StartIdempotent ==
  /\ [](armCount <= 1 /\ part004.armCount <= 1)
  /\ [][hasStarted /\ StartTrigger(BOOLEAN) => UNCHANGED <<programVars, armCount>>]_vars
  /\ [][part004.hasStarted /\ Part004Start => UNCHANGED part004]_vars

C2_Witness ==
  /\ hasStarted
  /\ armCount = 1
  /\ lastEvent = "startIgnored"

\* The view container of the running flow: #mobileStage in the mobile flow,
\* #cardShell otherwise.
C3_Container == IF flow = "mobile" THEN mobileStage ELSE cardShell

\* C3 as stated: once the experience has started the view container holds
\* exactly one view, and it is the countdown, the celebration video or the
\* details.
C3_OneOfThreeViews ==
  hasStarted =>
    /\ Len(C3_Container) = 1
    /\ C3_Container[1].v \in {"countdown", "video", "details"}

\* C3, amended: once the experience has started the view container never
\* holds two views.  The desktop container holds exactly one of countdown,
\* celebration video, details and sneak peek; the mobile stage holds one of
\* photo, celebration video, details and sneak peek, and is empty only while
\* the timer that skips a photo without a source is pending.
C3_AtMostOneView ==
  /\ flow = "desktop" =>
       /\ Len(cardShell) = 1
       /\ cardShell[1].v \in {"countdown", "video", "details", "sneak"}
  /\ flow = "mobile" =>
       /\ Len(mobileStage) <= 1
       /\ Len(mobileStage) = 1 =>
            mobileStage[1].v \in {"photo", "video", "details", "sneak"}
       /\ Len(mobileStage) = 0 => photoTimer >= 0
  /\ hasStarted <=> flow # "none"

C3_Witness ==
  /\ flow = "mobile"
  /\ mobileStage = <<Frame("details", 0)>>
  /\ nextEntry > 1
  /\ ~prefersReducedMotion

\* The view the user is shown: Idle until the experience has started, then
\* what the view container of the running flow holds.
C4_View ==
  IF ~hasStarted THEN "Idle"
  ELSE IF C3_Container = <<>> THEN "Empty"
  ELSE CASE C3_Container[1].v = "countdown" -> "CountdownRunning"
         [] C3_Container[1].v = "video" -> "VideoPlaying"
         [] C3_Container[1].v = "details" -> "DetailsShown"
         [] C3_Container[1].v = "photo" -> "Photo"
         [] OTHER -> "SneakPeek"

\* The edges of the state machine of the specification.
C4_SpecEdges ==
  {<<"Idle", "CountdownRunning">>, <<"CountdownRunning", "VideoPlaying">>,
   <<"VideoPlaying", "DetailsShown">>, <<"DetailsShown", "VideoPlaying">>}

\* The edges the code has besides: a start without countdown element goes to
\* the video, the mobile flow shows photos first, and the details view has a
\* sneak peek button whose view has a back button.
C4_CodeEdges ==
  {<<"Idle", "VideoPlaying">>, <<"Idle", "Photo">>, <<"Idle", "Empty">>,
   <<"Empty", "VideoPlaying">>, <<"Photo", "VideoPlaying">>,
   <<"DetailsShown", "SneakPeek">>, <<"SneakPeek", "DetailsShown">>}

C5_EndedAtMostOnce ==
  /\ [](lastEndedCallbacks <= 1)
  /\ [][Cardinality(endedTimers' \ endedTimers) <= 1]_vars

C5_Witness ==
  /\ lastEndedCallbacks = 1
  /\ nextEntry = 3
  /\ sharedCelebrationVideoEndedHandler = 2
  /\ endedTimers = {2}

\* The `ended` listeners on the shared video: the once-listeners of
\* attachCelebrationVideoHandlers and handleVideoEnded of every registered
\* media sync (main.js:2606).
C6_EndedListenerCount == Cardinality(endedListeners) + Cardinality(syncListeners)

\* C6 as stated: the shared video carries at most one `ended` listener and at
\* most one `error` listener.
C6_OneListenerEach ==
  /\ C6_EndedListenerCount <= 1
  /\ Cardinality(errorListeners) <= 1

\* C6, amended: the shared video carries at most one `ended` and at most one
\* `error` listener of attachCelebrationVideoHandlers, which are the stored
\* handlers, and besides at most one `ended` listener of the media sync,
\* which is the one the stored cleanup removes.
C6_OneTransitionListenerEach ==
  /\ Cardinality(endedListeners) <= 1
  /\ Cardinality(errorListeners) <= 1
  /\ Cardinality(syncListeners) <= 1
  /\ endedListeners \subseteq {sharedCelebrationVideoEndedHandler}
  /\ errorListeners \subseteq {sharedCelebrationVideoErrorHandler}
  /\ syncListeners \subseteq {cleanupCelebrationMediaSync}
  /\ 0 \notin endedListeners \cup errorListeners \cup syncListeners

C6_Witness ==
  /\ endedListeners = {2}
  /\ errorListeners = {2}
  /\ syncListeners = {2}
  /\ C6_EndedListenerCount = 2

\* The details view is shown, or, on the mobile stage with motion, is the
\* last frame waiting to be placed.
C7_DetailsNext ==
  \/ flow = "desktop" /\ cardShell = <<Frame("details", 0)>>
  \/ /\ flow = "mobile"
     /\ IF swapQueue = <<>> THEN mobileStage = <<Frame("details", 0)>>
        ELSE swapQueue[Len(swapQueue)] = Frame("details", 0)

\* C7: when the shared video fires `error` while the video view is shown,
\* the task that handles it shows the details view (desktop) or requests the
\* details frame (mobile), and so does the timer set by a normal completion.
C7_ErrorLeadsToDetails ==
  /\ [][lastEvent' = "videoError" /\ C4_View = "VideoPlaying" => C7_DetailsNext']_vars
  /\ [][endedTimers' # endedTimers /\ endedTimers' \subseteq endedTimers
          => C7_DetailsNext']_vars

C7_Witness ==
  /\ lastEvent = "videoError"
  /\ flow = "mobile"
  /\ Len(mobileStage) = 1 /\ mobileStage[1].v = "video"
  /\ swapQueue = <<Frame("details", 0)>>

C9_PermissionUiFollowsAudio ==
  /\ [](lastAudio = "denied" /\ currentCelebrationVideoWrapper # 0 =>
          /\ celebrationAudioPermissionContainer = currentCelebrationVideoWrapper
          /\ ~permHidden /\ ~permAriaHidden
          /\ isCelebrationAudioPlaybackBlocked)
  /\ [](lastAudio = "played" /\ celebrationAudioPermissionContainer # 0 =>
          permAriaHidden /\ hideTimers)
  /\ [][hideTimers /\ ~hideTimers' /\ celebrationAudioPermissionContainer # 0
          => permHidden']_vars

C9_Witness ==
  /\ lastAudio = "played"
  /\ lastEvent = "audioRetryPlaying"
  /\ celebrationAudioPermissionContainer # 0
  /\ ~permHidden /\ permAriaHidden /\ hideTimers
  /\ \E i \in 1..Len(cardShell) : cardShell[i].v = "video"

\* C10: when the play started by a click on the permission button, made
\* while the blocked flag was set, succeeds, the blocked flag is clear.
C10_RetrySuccessClearsBlocked ==
  [](lastEvent = "audioRetryPlaying" => ~isCelebrationAudioPlaybackBlocked)

C10_Witness ==
  /\ lastEvent = "audioRetryPlaying"
  /\ ~isCelebrationAudioPlaybackBlocked
  /\ ~aPaused
  /\ currentCelebrationVideoWrapper # 0

\* C11: while a media sync is set up and no `play` or `pause` event of the
\* video waits to be dispatched, the celebration audio is paused whenever the
\* celebration video is paused or has ended.
C11_AudioNeverOutlivesVideo ==
  cleanupCelebrationMediaSync # 0 /\ vEvents = {} /\ (vPaused \/ vEnded)
    => aPaused

\* C12: the reveal drivers are monotonic and saturating.  The count of
\* revealed border cells (main.js) and the index of the active stack image
\* (demo page) never decrease and never pass the number of frames, and an
\* advance made when every frame is revealed changes nothing.
C12_RevealMonotonicSaturating ==
  /\ [](revealedCells \in 0..numCells)
  /\ [][revealedCells' >= revealedCells]_vars
  /\ [](revealedCells = numCells => revealNextBorderCell(Cur) = Cur)
  /\ [](demo.currentImage \in -1..(demo.totalImages - 1))
  /\ [][demo.currentImage' >= demo.currentImage]_vars
  /\ [](demo.currentImage = demo.totalImages - 1 => showNextImage(demo) = demo)

C12_Witness ==
  /\ numCells >= 2
  /\ revealedCells = numCells
  /\ tickRenders = countdownStart
  /\ ~prefersReducedMotion /\ ~isMobileExperienceActive


\* The mobile photo timer is pending for a photo that is on show.
C13_PhotoOnShow ==
  photoTimer >= 1 /\ (photoTimer - 1) \in photoSrc

C14_StartsWithoutTarget ==
  ~hasStarted /\ hasStarted' /\ ~isMobileExperienceActive /\ ~hasCountdownNumber

\* C14: when the countdown number is absent at the start of the desktop flow,
\* the start arms neither the interval nor the completion timer and calls
\* showCelebrationVideo itself, once: the video view is in the card at the end
\* of that task, and no later step calls it again or arms the interval.
C14_AbsentTargetCompletesDirectly ==
  /\ [][C14_StartsWithoutTarget =>
          /\ armCount' = armCount
          /\ ~countdownIntervalId' /\ ~completionTimer'
          /\ completionCalls' = completionCalls + 1
          /\ \E i \in 1..Len(cardShell') : cardShell'[i].v = "video"]_vars
  /\ [](~hasCountdownNumber =>
          /\ armCount = 0 /\ completionCalls <= 1
          /\ ~countdownIntervalId /\ ~completionTimer /\ tickRenders = 0)

C14_Witness ==
  /\ ~hasCountdownNumber /\ hasStarted /\ ~isMobileExperienceActive
  /\ completionCalls = 1 /\ armCount = 0 /\ ~countdownIntervalId
  /\ \E i \in 1..Len(cardShell) : cardShell[i].v = "video"


\* The view changes of one run in the order of the flow.  A start whose video
\* the browser refuses to play shows the video view and replaces it by the
\* details within one task.
C15_InOrder ==
  \/ <<C4_View, C4_View'>> \in
       {<<"Idle", "CountdownRunning">>, <<"CountdownRunning", "VideoPlaying">>,
        <<"VideoPlaying", "DetailsShown">>}
  \/ /\ C4_View = "CountdownRunning" /\ C4_View' = "DetailsShown"
     /\ lastRejections' > 0

C16_Part004Terminal == IF part004.variant = 1 THEN 0 ELSE 1

\* The tick that shows the terminal value cancels the interval and sets the
\* settle timer, in each variant.
C16_TerminalTickCancels ==
  /\ part004'.renders = part004.renders + 1 /\ part004'.n <= C16_Part004Terminal
       => /\ ~part004'.intervalArmed /\ part004'.finishTimer
          /\ part004'.settleDelay \in 400..650
  /\ demo'.renders = demo.renders + 1 /\ demo'.n <= 1
       => /\ ~demo'.timer /\ demo'.settleTimer
          /\ demo'.settleDelay \in 400..650
  /\ tickRenders' = tickRenders + 1 /\ currentValue' <= 0
       => /\ ~countdownIntervalId' /\ completionTimer'
          /\ COUNTDOWN_COMPLETE_VIDEO_DELAY_MS \in 400..650

\* No tick is rendered once the terminal value has been shown, and the
\* completion callback runs from the settle timer only.
C16_NoTickAfterTerminal ==
  /\ part004.hasStarted /\ ~part004.intervalArmed
       => part004'.renders = part004.renders
  /\ ~demo.timer => demo'.renders = demo.renders
  /\ armCount = 1 /\ ~countdownIntervalId => tickRenders' = tickRenders
  /\ part004'.completions # part004.completions
       => part004.finishTimer /\ ~part004'.finishTimer
  /\ demo'.completions # demo.completions
       => demo.settleTimer /\ ~demo'.settleTimer
  /\ completionCalls' # completionCalls /\ armCount = 1
       => completionTimer /\ ~completionTimer'

\* C16: in each countdown (the page script, the two earlier scripts and the
\* demo page) the tick that shows the terminal value clears the interval and
\* sets the settle timer, whose delay lies between 400 and 650 ms; no tick is
\* rendered after it; and the completion callback runs once, from that timer,
\* and not again.
C16_TerminalTickThenOneCompletion ==
  /\ [][C16_TerminalTickCancels /\ C16_NoTickAfterTerminal]_vars
  /\ [](part004.completions <= 1 /\ demo.completions <= 1 /\ completionCalls <= 1)
  /\ part004.hasStarted ~> (part004.completions = 1 /\ part004.n = C16_Part004Terminal)
  /\ (phase = "countdown_demo") ~> (demo.completions = 1 /\ demo.n = 1)
  /\ (armCount = 1) ~> (completionCalls = 1 /\ currentValue = 0)

C16_Witness ==
  /\ part004.variant = 2 /\ part004.completions = 1 /\ part004.n = 1
  /\ part004.renders = secondCountdownStartValue - 1
  /\ ~part004.intervalArmed /\ ~part004.finishTimer /\ part004.settleDelay = 650


\* The program state without the mobile flag.
C17_BesidesFlag == [Cur EXCEPT !.isMobileExperienceActive = FALSE]

\* The flow of a start: the mobile one when the flag is set as the start runs
\* and the page has a mobile stage.
C17_FlowOfStart ==
  IF isMobileExperienceActive /\ hasMobileStage THEN "mobile" ELSE "desktop"

\* C17: the flow is chosen from the mobile flag when the experience starts and
\* stays; a change of the breakpoint afterwards (or before) changes the flag
\* and nothing else of the program state: no timer is armed or cleared, no view
\* is built or moved.  The desktop flow never puts a view on the mobile stage,
\* and the mobile flow never arms the countdown or changes the card.
C17_BreakpointChangeOnlySetsFlag ==
  /\ [][isMobileExperienceActive' # isMobileExperienceActive
          => C17_BesidesFlag' = C17_BesidesFlag /\ UNCHANGED phase]_vars
  /\ [][~hasStarted /\ hasStarted' => flow' = C17_FlowOfStart]_vars
  /\ [][hasStarted => flow' = flow]_vars
  /\ [](flow = "desktop" =>
          /\ mobileStage = <<>> /\ swapQueue = <<>>
          /\ photoTimer = -1 /\ ~finalPhotoTimer)
  /\ [](flow = "mobile" =>
          /\ ~countdownIntervalId /\ ~completionTimer /\ armCount = 0
          /\ cardShell = IF hasCountdownNumber THEN <<Frame("countdown", 0)>>
                         ELSE <<>>)

C17_Witness ==
  /\ lastEvent = "breakpoint" /\ hasStarted /\ hasMobileStage
  /\ flow = "desktop" /\ isMobileExperienceActive
  /\ countdownIntervalId /\ tickRenders >= 1 /\ mobileStage = <<>>


\* C18 as stated: while a video view is set up, the blocked flag is set after
\* every task in which a play promise of the celebration audio was rejected,
\* whoever called play(), and it is clear after every task in which
\* ensureCelebrationAudioPlayback found the audio playing.
C18_BlockedOnEveryRejection ==
  /\ lastAudioRejections # {} /\ cleanupCelebrationMediaSync # 0
       => isCelebrationAudioPlaybackBlocked
  /\ lastAudio = "played" => ~isCelebrationAudioPlaybackBlocked

\* C18: while a video view is set up, the blocked flag is set after every task
\* in which a play promise of ensureCelebrationAudioPlayback was rejected (the
\* rejection of the primer's play() does not set it); it is clear after every
\* task in which ensureCelebrationAudioPlayback found the audio playing; and
\* while one video view stays set up nothing else clears it (the set-up and
\* the removal of a video view clear it too).
C18_BlockedFollowsEnsureAttempts ==
  /\ [](/\ "aEnsure" \in lastAudioRejections /\ cleanupCelebrationMediaSync # 0
          => isCelebrationAudioPlaybackBlocked
        /\ lastAudio = "played" => ~isCelebrationAudioPlaybackBlocked)
  /\ [][(/\ isCelebrationAudioPlaybackBlocked
         /\ ~isCelebrationAudioPlaybackBlocked'
         /\ cleanupCelebrationMediaSync # 0
         /\ cleanupCelebrationMediaSync' = cleanupCelebrationMediaSync)
        => lastAudio' = "played"]_vars

C18_Witness ==
  /\ "aEnsure" \in lastAudioRejections /\ cleanupCelebrationMediaSync # 0
  /\ isCelebrationAudioPlaybackBlocked /\ ~hasPrimedCelebrationAudioPlayback
  /\ ~vPaused /\ aPaused


\* The video views in the document.
C19_VideoViews ==
  {cardShell[i] : i \in {j \in 1..Len(cardShell) : cardShell[j].v = "video"}}
    \cup {mobileStage[i] :
            i \in {j \in 1..Len(mobileStage) : mobileStage[j].v = "video"}}

\* C19: createCelebrationVideoElement runs at most once, however many video
\* views are built, and every video view in the document holds the shared
\* element: the wrapper the element was moved into last is that view's.
C19_OneSharedVideoElement ==
  /\ videoElementsCreated <= 1
  /\ sharedCelebrationVideoElement <=> videoElementsCreated = 1
  /\ \A f \in C19_VideoViews : sharedCelebrationVideoElement /\ vParent = f.id
  /\ nextEntry > 1 => sharedCelebrationVideoElement

C19_Witness ==
  /\ videoElementsCreated = 1 /\ nextEntry = MaxEntries + 1
  /\ Frame("video", MaxEntries) \in C19_VideoViews /\ vParent = MaxEntries


\* The tolerance of the pair in ms.
C20_Tolerance ==
  IF mediaSync.pair = "celebration" THEN celebrationSyncToleranceMs
  ELSE sneakPeekSyncToleranceMs

\* The last event's listeners set the audio position exactly when the drift
\* they found was over the tolerance, and left the drift within it.
C20_SyncedIffDrifted ==
  /\ mediaSync.resets > 0 <=> mediaSync.driftBefore > C20_Tolerance
  /\ mediaSync.resets > 0 => mediaSync.audioTime = mediaSync.videoTime
  /\ Abs(mediaSync.audioTime - mediaSync.videoTime) <= C20_Tolerance

\* C20 as stated: after a play, a seeking or a timeupdate event of the video
\* of either pair, the audio position was set to the video's exactly when
\* the drift was over the pair's tolerance, and the drift is within it.
C20_SyncOnPlaySeekingTimeupdate ==
  mediaSync.lastEvent \in {"play", "seeking", "timeupdate"} => C20_SyncedIffDrifted

\* The events whose listeners synchronise the positions of the pair.
C20_SyncEvents ==
  IF mediaSync.pair = "celebration" THEN {"play", "seeking", "timeupdate"}
  ELSE {"play", "seeking", "seeked"}

\* C20: after a play, a seeking or a timeupdate event of the celebration
\* video, and after a play, a seeking or a seeked event of the sneak peek
\* video, the audio position was set to the video's exactly when the drift
\* was over the pair's tolerance (350 ms, 300 ms), and the drift is within
\* it.  A timeupdate of the sneak peek video and a seeked of the celebration
\* video leave the audio position alone.
C20_SyncOnRegisteredEvents ==
  /\ mediaSync.lastEvent \in C20_SyncEvents => C20_SyncedIffDrifted
  /\ mediaSync.lastEvent \notin C20_SyncEvents => mediaSync.resets = 0

C20_Witness ==
  /\ mediaSync.pair = "celebration" /\ mediaSync.lastEvent = "timeupdate"
  /\ mediaSync.driftBefore = celebrationSyncToleranceMs + TimeStepMs
  /\ mediaSync.resets = 1 /\ mediaSync.audioTime = mediaSync.videoTime
  /\ mediaSync.videoTime > 0

\* The escaped text read back as an ICS parser reads it: a backslash and
\* the character after it stand for one character.
RECURSIVE C21_Unescape(_)
C21_Unescape(value) ==
  IF value = <<>> THEN <<>>
  ELSE IF Head(value) = "\\" /\ Len(value) >= 2
       THEN <<IF value[2] = "n" THEN "\n" ELSE value[2]>>
              \o C21_Unescape(SubSeq(value, 3, Len(value)))
       ELSE <<Head(value)>> \o C21_Unescape(Tail(value))

\* The positions of the commas and semicolons of an escaped text that no
\* backslash escapes.
RECURSIVE C21_Bare(_)
C21_Bare(value) ==
  IF value = <<>> THEN 0
  ELSE IF Head(value) = "\\" /\ Len(value) >= 2
       THEN C21_Bare(SubSeq(value, 3, Len(value)))
       ELSE (IF Head(value) \in {",", ";"} THEN 1 ELSE 0) + C21_Bare(Tail(value))

\* The lines of the generated file, each as one string.
C21_Lines ==
  {joinPieces(calendar.icsContent[i]) : i \in 1..Len(calendar.icsContent)}

\* The value of the DESCRIPTION line of the generated file.
C21_DescriptionValue == Tail(calendar.icsContent[11])

\* C21: for the fixed event (title "Wedding Weekend: Lorraine &
\* Christopher", start 20260911, end 20260914) the generated ICS text
\* contains the lines DTSTART;VALUE=DATE:20260911 and
\* DTEND;VALUE=DATE:20260914, and every comma and semicolon of the
\* description field is escaped: none is left bare, and the field reads back
\* as the description.
C21_IcsDatesAndEscapes ==
  calendar.icsContent # <<>> =>
    /\ calendar.event.title = <<"Wedding Weekend: Lorraine & Christopher">>
    /\ "DTSTART;VALUE=DATE:20260911" \in C21_Lines
    /\ "DTEND;VALUE=DATE:20260914" \in C21_Lines
    /\ "SUMMARY:Wedding Weekend: Lorraine & Christopher" \in C21_Lines
    /\ Head(calendar.icsContent[11]) = "DESCRIPTION:"
    /\ C21_Bare(C21_DescriptionValue) = 0
    /\ C21_Unescape(C21_DescriptionValue) = calendar.event.description

\* A file was generated for a description with a comma and a semicolon in it.
C21_Witness ==
  /\ calendar.icsContent # <<>>
  /\ calendar.event.description = <<"a", ",", ";">>
  /\ C21_DescriptionValue = <<"a", "\\", ",", "\\", ";">>

\* C22: when the attendance POST fails with a network error the failure is
\* caught and the inline failure message is rendered, and no POST is issued
\* by anything but a submission of the form.
C22_FailureShownNotRetried ==
  /\ [][AttendanceFetchRejected =>
          /\ attendance'.message = "failed"
          /\ attendance'.posts = attendance.posts
          /\ attendance'.inFlight = attendance.inFlight - 1]_vars
  /\ [][attendance'.posts # attendance.posts =>
          /\ AttendanceSubmit
          /\ attendance'.posts = attendance.posts + 1]_vars

\* The only POST of the run failed: the failure message is shown and nothing
\* is in flight.
C22_Witness ==
  /\ attendance.lastEvent = "rejected"
  /\ attendance.message = "failed"
  /\ attendance.posts = 1
  /\ attendance.inFlight = 0

\* C23: the completion step of a primer (pause, rewind to 0, restore muted)
\* never runs on the video or the audio element after the celebration
\* playback of that element has been started, whenever the primer's play
\* promise settles.
C23_PrimerNeverAfterRealPlayback == primerLate = {}

\* C24: while the celebration video view is current and the blocked flag is
\* set with the permission UI shown by a not-allowed rejection, the
\* permission container stays unhidden until the audio playback succeeds or
\* the view is left: a 200 ms hide timer scheduled before the rejection never
\* hides it afterwards.
C24_PermissionUiStaysWhileBlocked ==
  [][(/\ cleanupCelebrationMediaSync # 0
      /\ cleanupCelebrationMediaSync' = cleanupCelebrationMediaSync
      /\ isCelebrationAudioPlaybackBlocked /\ ~permHidden /\ ~permAriaHidden
      /\ isCelebrationAudioPlaybackBlocked'
      /\ lastAudio' # "played")
     => ~permHidden']_vars

\* C25: each entry into the celebration video view leads to at most one
\* invocation of the details transition, whatever combination of ended,
\* error and play-rejection callbacks occurs for that playback.
C25_OneDetailsTransitionPerEntry == detailsAgain = {}

\* C26: once the user has muted the video (a trusted volumechange), the
\* celebration audio is muted in every later state of that playback, also
\* after a pause and a play, until the user changes the volume state again.
C26_UserMuteKeepsAudioMuted ==
  /\ cleanupCelebrationMediaSync # 0
  /\ hasUserAdjustedVolume /\ vMuted
  => aMuted

\* The photos with a source, in index order.
C27_PhotosWithSource == SetToSeq(photoSrc)

\* The photos shown so far are the first photos with a source, each once
\* and in index order, and the sequence has shown the video at most once,
\* after all of them.
C27_PhotosInOrder ==
  /\ \E k \in 0..Len(C27_PhotosWithSource) :
       photoLog = SubSeq(C27_PhotosWithSource, 1, k)
  /\ nextEntry <= 2
  /\ nextEntry = 2 => photoLog = C27_PhotosWithSource

\* C27: for any photo list, the mobile sequence shows each photo that has a
\* source exactly once in index order, skips the photos without a source and
\* then shows the celebration video exactly once; it terminates, also when
\* every photo lacks a source.
C27_MobileSequence ==
  /\ []C27_PhotosInOrder
  /\ [](flow = "mobile" => <>(nextEntry = 2 /\ photoTimer < 0 /\ ~finalPhotoTimer))

\* The sequence of a list whose first photo lacks a source has shown the
\* second photo and then the video.
C27_Witness ==
  /\ numCells = 2 /\ photoSrc = {1}
  /\ photoLog = <<1>>
  /\ nextEntry = 2
  /\ \E i \in 1..Len(mobileStage) : mobileStage[i].v = "video"

\* ---------------------------------------------------------------------- C28
\* The sum of the batch sizes of the reveal steps made so far.
RECURSIVE C28_Sum(_)
C28_Sum(q) == IF q = <<>> THEN 0 ELSE Head(q) + C28_Sum(Tail(q))

\* C28: in the grid scripts the frames are revealed in index order, each
\* once, the batch sizes of the reveal steps add up to the number of frames
\* revealed, and when the completion callback has run the batches add up to
\* the frame count: every frame has been revealed.
C28_BatchesCoverFrames ==
  /\ grid.revealed = [i \in 1..Len(grid.revealed) |-> i - 1]
  /\ C28_Sum(grid.batches) = Len(grid.revealed)
  /\ Len(grid.revealed) <= grid.totalImages
  /\ grid.completions >= 1 =>
       /\ C28_Sum(grid.batches) = grid.totalImages
       /\ Len(grid.revealed) = grid.totalImages

\* A grid whose frame count differs from its number of reveal steps has
\* completed with a batch of more than one frame.
C28_Witness ==
  /\ grid.completions = 1
  /\ grid.totalImages > 0
  /\ grid.totalImages # Len(grid.batches)
  /\ \E i \in DOMAIN grid.batches : grid.batches[i] > 1
  /\ Len(grid.revealed) = grid.totalImages

\* ---------------------------------------------------------------------- C29
C29_Min(a, b) == IF a <= b THEN a ELSE b

\* C29: in the desktop flow without reduced motion, once the countdown is
\* armed the number of revealed border cells after k ticks is
\* min(k + 1, number of cells), the revealed cells are the first ones in
\* order, and every border cell is revealed when the completion timer is set
\* and when the completion callback has run.
C29_RevealedCellsPerTick ==
  (~prefersReducedMotion /\ ~isMobileExperienceActive /\ armCount >= 1) =>
    /\ revealedCells = C29_Min(tickRenders + 1, numCells)
    /\ visibleCells = 0..(revealedCells - 1)
    /\ (completionTimer \/ completionCalls >= 1) => revealedCells = numCells

\* The countdown of a page with border cells has completed without reduced
\* motion: the last tick found no cell left to reveal.
C29_Witness ==
  /\ ~prefersReducedMotion /\ ~isMobileExperienceActive
  /\ numCells = MaxCells /\ numCells >= 1
  /\ completionCalls = 1
  /\ tickRenders = numCells
  /\ revealedCells = numCells

\* ---------------------------------------------------------------------- C30
\* C30: boom and confetti are scheduled only by the ended callback of the
\* first video entry, the one the countdown or the mobile sequence built,
\* while no later entry has been built, and never under reduced motion:
\* never by an error or a rejected play, by a replayed video or by the
\* return from the sneak peek, in the desktop and the mobile flow.
C30_EffectsOnlyAfterFirstVideoEnded ==
  /\ prefersReducedMotion => fxCauses = {} /\ ~fxTimer
  /\ \A c \in fxCauses : c.how = "ended" /\ c.entry = 1 /\ c.built = 1

\* ---------------------------------------------------------------------- C31
\* C31: on the promise-gated pages the switch to the video runs at most
\* once, it has run exactly when the countdown has completed and the video
\* is ready or absent, and a step that leaves one of the two open does not
\* run it.
C31_ShowVideoOnceAfterBoth ==
  /\ gate.showVideoCalls <= 1
  /\ gate.showVideoCalls = 1 <=>
       /\ gate.countdownComplete
       /\ (~gate.hasVideo \/ gate.videoReady)

\* The switch has run on a page whose video became ready while the
\* countdown was running.
C31_Witness ==
  /\ gate.showVideoCalls = 1
  /\ gate.hasVideo /\ gate.readyListeners = {} /\ gate.fired # {"canplay", "loadeddata"}
  /\ gate.countdownResolved /\ gate.n = 1

\* ---------------------------------------------------------------------- C32
\* C32: however many times the details view is rebuilt, at most one
\* outside-click listener of the calendar controls is registered on document.
C32_OneOutsideClickListener == outsideClickListeners <= 1

\* ---------------------------------------------------------------------- C33
\* C33: at most one calendar object URL is live at any time, and it is the
\* cached one; a download click leaves none of the URLs that were live
\* before it, and the URL it places on the link is the fresh one, which has
\* not been revoked.
C33_OneLiveBlobUrl ==
  /\ [](/\ Cardinality(calendar.live) <= 1
        /\ calendar.live \subseteq {calendar.cachedCalendarBlobUrl})
  /\ [][CalendarDownload =>
          /\ calendar.live \cap calendar'.live = {}
          /\ \E link \in CalendarLinks :
               /\ calendar'.linkHref[link] = calendar'.urlsCreated
               /\ calendar'.linkHref[link] \in calendar'.live
               /\ calendar'.linkHref[link] \notin calendar.live]_vars

\* Both links were clicked: the second click revoked the URL of the first
\* link and the third one the URL of the second.
C33_Witness ==
  /\ calendar.urlsCreated = 3
  /\ calendar.linkHref["first"] = 3 /\ calendar.linkHref["second"] = 2
  /\ calendar.live = {3}

\* ---------------------------------------------------------------------- C34
\* C34: on the mobile story page, once startVideoStage has run the intro
\* card is eventually visible, whatever the video does (it ends, fails, has
\* play() refused twice, or nothing happens and the fallback timer fires);
\* and every run of handleCompletion leaves the video paused, the stage
\* hidden and the fallback timer cancelled.
C34_IntroCardEventuallyRevealed ==
  /\ [](story.isMobileStory /\ story.stageStarted => <>story.introVisible)
  /\ [][story'.completions # story.completions =>
          /\ story'.paused
          /\ ~story'.stageVisible
          /\ ~story'.fallbackTimer]_vars

\* play() was refused twice before the fallback timer fired, and the card
\* is visible.
C34_Witness ==
  /\ story.isMobileStory
  /\ story.completions = {"refused"}
  /\ story.introVisible
  /\ story.paused /\ ~story.stageVisible /\ ~story.fallbackTimer

\* ---------------------------------------------------------------------- C35
\* C35: on the desktop story page with a background video, revealIntroCard
\* is called only by the ended, error or abort listener of the video, or by
\* the fallback timer after the countdown has called video.play(); and
\* never before the tap on the start prompt or while the countdown runs.
C35_RevealedOnlyAfterVideo ==
  (~story.isMobileStory /\ story.hasVideo) =>
    \A r \in story.reveals :
      /\ \/ r.how \in {"ended", "error", "abort"}
         \/ r.how = "fallback" /\ r.began
      /\ r.started
      /\ ~r.counting

\* ---------------------------------------------------------------------- C36
\* C36: the durations computed for successive frames never increase, the
\* duration of the first frame is the base duration (for the mobile photos:
\* the start duration, when motion is not reduced), and no duration is below
\* the minimum.
C36_Base ==
  CASE hit.variant = "demo" -> demoBaseDuration * hit.scale
    [] hit.variant = "hits" -> hitBaseDuration \div 10
    [] OTHER -> IF prefersReducedMotion THEN MOBILE_PHOTO_DEFAULT_DURATION_MS
                ELSE MOBILE_PHOTO_CYCLE_DURATIONS[1].start

C36_Floor ==
  CASE hit.variant = "demo" -> demoMinDuration * hit.scale
    [] hit.variant = "hits" -> hitMinDuration \div 10
    [] OTHER -> MOBILE_PHOTO_CYCLE_DURATIONS[1].min

C36_DurationsDecreaseToFloor ==
  /\ \A i \in 1..Len(hit.durations) :
       /\ hit.durations[i] >= C36_Floor
       /\ i > 1 => hit.durations[i] <= hit.durations[i - 1]
  /\ Len(hit.durations) >= 1 => hit.durations[1] = C36_Base

\* The ten images of the demo page: the last duration is the minimum and
\* every duration is shorter than the one before.
C36_Witness ==
  /\ hit.variant = "demo" /\ hit.total = demoStartValue
  /\ Len(hit.durations) = hit.total
  /\ hit.durations[hit.total] = C36_Floor
  /\ \A i \in 2..hit.total : hit.durations[i] < hit.durations[i - 1]

=============================================================================
